---------------------------- MODULE Spec2Model ----------------------------
(***************************************************************************)
(* A model of the trading-execution-engine: the paper trader, the dry-run  *)
(* trading engine, the risk manager, the portfolio manager and the daily   *)
(* trading cycle that drives them.                                         *)
(*                                                                         *)
(* Every object of the program is one variable holding a record of the     *)
(* object's fields.  Every method is an operator from the object's state   *)
(* and the call's arguments to the state after the call and the value      *)
(* returned (or the exception raised).  Beside each object a second        *)
(* variable keeps the last call made on it: the method, its arguments,     *)
(* what it returned and the object's state before the call.                *)
(*                                                                         *)
(* Python floats are modelled as exact rationals [n, d] in lowest terms,   *)
(* so that equalities the program holds "within floating-point tolerance"  *)
(* are equalities here, and differences of the model are real differences  *)
(* of the program.                                                         *)
(***************************************************************************)
EXTENDS Integers, Sequences, FiniteSets, TLC

(***************************************************************************)
(* Rational arithmetic (the program's float arithmetic).                   *)
(***************************************************************************)
Abs(x) == IF x < 0 THEN -x ELSE x

Sign(x) == IF x < 0 THEN -1 ELSE IF x = 0 THEN 0 ELSE 1

RECURSIVE Gcd(_, _)
Gcd(a, b) == IF b = 0 THEN a ELSE Gcd(b, a % b)

Lcm(a, b) == (a \div Gcd(a, b)) * b

\* The rational n/d (d # 0) in lowest terms with a positive denominator.
Rat(n, d) ==
    LET g == Gcd(Abs(n), Abs(d))
    IN  [n |-> Sign(d) * Sign(n) * (Abs(n) \div g), d |-> Abs(d) \div g]

RInt(i) == [n |-> i, d |-> 1]

Zero == RInt(0)

RNeg(a) == [n |-> -a.n, d |-> a.d]

RAdd(a, b) ==
    LET l == Lcm(a.d, b.d)
    IN  Rat(a.n * (l \div a.d) + b.n * (l \div b.d), l)

RSub(a, b) == RAdd(a, RNeg(b))

RMul(a, b) ==
    LET g1 == Gcd(Abs(a.n), b.d)
        g2 == Gcd(Abs(b.n), a.d)
    IN  Rat((a.n \div g1) * (b.n \div g2), (a.d \div g2) * (b.d \div g1))

\* a / b for b # 0 (Python raises ZeroDivisionError when b = 0: the callers
\* of RDiv test for it first).
RDiv(a, b) == RMul(a, [n |-> Sign(b.n) * b.d, d |-> Abs(b.n)])

\* a/b < c/d for b, d > 0, by the integer parts and then the reciprocals of
\* the fractional parts: exact, with no product of a numerator and a
\* denominator.
RECURSIVE FracLt(_, _, _, _)
FracLt(a, b, c, d) ==
    IF a \div b # c \div d
    THEN a \div b < c \div d
    ELSE IF c % d = 0
    THEN FALSE
    ELSE IF a % b = 0
    THEN TRUE
    ELSE FracLt(d, c % d, b, a % b)

RLt(a, b) == FracLt(a.n, a.d, b.n, b.d)

RLe(a, b) == ~RLt(b, a)

RGt(a, b) == RLt(b, a)

RGe(a, b) == ~RLt(a, b)

RMax(a, b) == IF RLt(a, b) THEN b ELSE a

RMin(a, b) == IF RLt(b, a) THEN b ELSE a

\* The marker of a value that is absent (Python's None, a missing dict key).
None == [n |-> 0, d |-> 0]

(***************************************************************************)
(* Inputs.                                                                 *)
(***************************************************************************)
\* Instrument identifiers; "" is the empty (falsy) symbol.
Symbols == {"A", "B"}

\* str.upper() on the action strings the inputs use.
Upper(s) ==
    CASE s = "buy" -> "BUY"
      [] s = "sell" -> "SELL"
      [] OTHER -> s

\* The empty dict.
EmptyMap == [x \in {} |-> None]

\* A function with one more (or one replaced) entry.
MapPut(f, k, v) == [x \in DOMAIN f \cup {k} |-> IF x = k THEN v ELSE f[x]]

\* A function without the entry k.
MapDel(f, k) == [x \in DOMAIN f \ {k} |-> f[x]]

(***************************************************************************)
(* PaperTrader (execution/paper_trader.py).                                *)
(*                                                                         *)
(* A signal is the dict the strategy engine supplies: symbol, action,      *)
(* quantity (whole shares), price and stop_loss (None when absent).  A     *)
(* trade's timestamp and its copy of the signal are written and never      *)
(* read, and are left out; trade_id "paper_<k>" is kept as the number k.   *)
(***************************************************************************)
commission_per_trade == 20

\* PaperTrader.__init__: the state after construction from a config.
PT_init(initial_capital, slippage_bps, enabled) ==
    [portfolio |-> EmptyMap,
     trades |-> << >>,
     daily_pnl |-> Zero,
     initial_capital |-> initial_capital,
     available_capital |-> initial_capital,
     commission_per_trade |-> RInt(commission_per_trade),
     slippage_bps |-> slippage_bps,
     enabled |-> enabled]

\* The structural check shared by PaperTrader.execute_signal and
\* RiskManager.validate_signal: all([symbol, action in [BUY, SELL],
\* quantity > 0, price > 0]).
SignalStructurallyValid(signal) ==
    /\ signal.symbol # ""
    /\ Upper(signal.action) \in {"BUY", "SELL"}
    /\ signal.quantity > 0
    /\ RGt(signal.price, Zero)

PT_slippage_factor(pt) == RAdd(RInt(1), Rat(pt.slippage_bps, 10000))

\* execution_price with the slippage added to a SELL as it is to a BUY.
PT_execution_price_marked_up(pt, action, price) ==
    RMul(price, PT_slippage_factor(pt))

\* The execution price of execute_signal: the signal price with the
\* slippage applied.
PT_execution_price(pt, action, price) ==
    IF action = "BUY"
    THEN RMul(price, PT_slippage_factor(pt))
    ELSE RDiv(price, PT_slippage_factor(pt))

\* PaperTrader._update_portfolio: the portfolio and the trade (which gains
\* realized_pnl on a reducing SELL) after the call.
PT_update_portfolio(portfolio, trade) ==
    LET symbol == trade.symbol
        quantity == trade.quantity
        created == IF symbol \in DOMAIN portfolio
                   THEN portfolio
                   ELSE MapPut(portfolio, symbol,
                               [quantity |-> 0, avg_price |-> Zero,
                                total_cost |-> Zero, realized_pnl |-> Zero])
        position == created[symbol]
    IN  IF trade.action = "BUY"
        THEN LET total_quantity == position.quantity + quantity
                 total_cost == RAdd(position.total_cost, trade.total_cost)
             IN  [portfolio |->
                      MapPut(created, symbol,
                             [position EXCEPT
                                 !.avg_price = IF total_quantity > 0
                                               THEN RDiv(total_cost, RInt(total_quantity))
                                               ELSE Zero,
                                 !.quantity = total_quantity,
                                 !.total_cost = total_cost]),
                  trade |-> trade]
        ELSE IF position.quantity >= quantity
        THEN LET avg_cost == position.avg_price
                 sell_proceeds == RSub(trade.trade_value, trade.commission)
                 cost_basis == RMul(avg_cost, RInt(quantity))
                 realized_pnl == RSub(sell_proceeds, cost_basis)
             IN  [portfolio |->
                      MapPut(created, symbol,
                             [position EXCEPT
                                 !.quantity = position.quantity - quantity,
                                 !.total_cost = RSub(position.total_cost, cost_basis),
                                 !.realized_pnl = RAdd(position.realized_pnl, realized_pnl)]),
                  trade |-> [trade EXCEPT !.realized_pnl = realized_pnl]]
        ELSE \* only a warning is logged
             [portfolio |-> created, trade |-> trade]

\* _calculate_trade_pnl answering every trade, a SELL included, with the
\* slippage difference.
PT_calculate_trade_pnl_slippage_only(trade) ==
    RMul(RSub(trade.signal_price, trade.execution_price), RInt(trade.quantity))

\* PaperTrader._calculate_trade_pnl
PT_calculate_trade_pnl(trade) ==
    IF trade.action = "BUY"
    THEN RMul(RSub(trade.signal_price, trade.execution_price), RInt(trade.quantity))
    ELSE IF trade.realized_pnl = None THEN Zero ELSE trade.realized_pnl

PT_rejected(reason) ==
    [executed |-> FALSE, reason |-> reason, trade_id |-> 0,
     execution_price |-> None, trade_value |-> None, pnl |-> None,
     available_capital |-> None]

\* The capital check with >= for >: a BUY costing exactly the available capital
\* is refused.
PT_insufficient_capital_strict(pt, action, total_cost) ==
    action = "BUY" /\ RGe(total_cost, pt.available_capital)

\* The capital check of execute_signal: action == "BUY" and
\* total_cost > self.available_capital.
PT_insufficient_capital(pt, action, total_cost) ==
    action = "BUY" /\ RGt(total_cost, pt.available_capital)

\* PaperTrader.execute_signal: [pt |-> the trader after the call, ret |-> the
\* dict returned].
PT_execute_signal(pt, signal) ==
    IF ~pt.enabled
    THEN [pt |-> pt, ret |-> PT_rejected("Paper trading disabled")]
    ELSE IF ~SignalStructurallyValid(signal)
    THEN [pt |-> pt, ret |-> PT_rejected("Invalid signal parameters")]
    ELSE
    LET action == Upper(signal.action)
        execution_price == PT_execution_price(pt, action, signal.price)
        trade_value == RMul(execution_price, RInt(signal.quantity))
        total_cost == RAdd(trade_value, pt.commission_per_trade)
    IN  IF PT_insufficient_capital(pt, action, total_cost)
        THEN [pt |-> pt, ret |-> PT_rejected("Insufficient capital")]
        ELSE
        LET trade == [trade_id |-> Len(pt.trades) + 1,
                      symbol |-> signal.symbol,
                      action |-> action,
                      quantity |-> signal.quantity,
                      signal_price |-> signal.price,
                      execution_price |-> execution_price,
                      trade_value |-> trade_value,
                      commission |-> pt.commission_per_trade,
                      total_cost |-> total_cost,
                      slippage_bps |-> pt.slippage_bps,
                      realized_pnl |-> None,
                      pnl |-> None]
            updated == PT_update_portfolio(pt.portfolio, trade)
            available_capital ==
                IF action = "BUY"
                THEN RSub(pt.available_capital, total_cost)
                ELSE RAdd(pt.available_capital,
                          RSub(trade_value, pt.commission_per_trade))
            pnl == PT_calculate_trade_pnl(updated.trade)
            recorded == [updated.trade EXCEPT !.pnl = pnl]
        IN  [pt |-> [pt EXCEPT !.portfolio = updated.portfolio,
                               !.available_capital = available_capital,
                               !.daily_pnl = RAdd(pt.daily_pnl, pnl),
                               !.trades = Append(pt.trades, recorded)],
             ret |-> [executed |-> TRUE, reason |-> "",
                      trade_id |-> trade.trade_id,
                      execution_price |-> execution_price,
                      trade_value |-> trade_value,
                      pnl |-> pnl,
                      available_capital |-> available_capital]]

\* PaperTrader.initialize_daily_session
PT_initialize_daily_session(pt) ==
    [pt EXCEPT !.daily_pnl = Zero, !.trades = << >>]

(***************************************************************************)
(* DryRunTradingEngine (execution/dry_run_trading_engine.py).              *)
(*                                                                         *)
(* get_current_price reads the market: the price it returns is an input    *)
(* of each call (None when the feed has no price).  An order's timestamp   *)
(* and a position's entry_time are left out.                               *)
(***************************************************************************)
\* risk_limits["max_position_size"] = 0.05
DR_max_position_size == Rat(5, 100)

\* transaction_costs
DR_brokerage_rate == Rat(3, 10000)

DR_stt_rate == Rat(25, 100000)

DR_exchange_charges == Rat(345, 10000000)

DR_gst_rate == Rat(18, 100)

\* order_id = "DRY_{int(time.time() * 1000)}_{symbol}" is a plain string,
\* not an f-string: every order carries this same identifier.
DR_order_id == "DRY_{int(time.time() * 1000)}_{symbol}"

\* DryRunTradingEngine.__init__
DR_init(initial_capital) ==
    [initial_capital |-> initial_capital,
     available_cash |-> initial_capital,
     total_value |-> initial_capital,
     positions |-> EmptyMap,
     orders |-> << >>,
     trades_executed |-> 0,
     winning_trades |-> 0,
     total_pnl |-> Zero,
     max_drawdown |-> Zero,
     peak_value |-> initial_capital]

\* DryRunTradingEngine.calculate_transaction_cost
DR_calculate_transaction_cost(value, transaction_type) ==
    LET brokerage == RMul(value, DR_brokerage_rate)
        exchange_charges == RMul(value, DR_exchange_charges)
        stt == IF transaction_type = "SELL" THEN RMul(value, DR_stt_rate) ELSE Zero
        gst == RMul(brokerage, DR_gst_rate)
    IN  RAdd(RAdd(RAdd(brokerage, exchange_charges), stt), gst)

\* DryRunTradingEngine._execute_simulated_order: [dr |-> the engine after the
\* call, raised |-> whether it raised (ZeroDivisionError, before any write)].
DR_execute_simulated_order(dr, order, transaction_cost) ==
    LET symbol == order.symbol
        quantity == order.quantity
        price == order.price
    IN  IF order.transaction_type = "BUY"
        THEN IF symbol \in DOMAIN dr.positions
             THEN LET current_pos == dr.positions[symbol]
                      total_quantity == current_pos.quantity + quantity
                      total_cost ==
                          RAdd(RMul(RInt(current_pos.quantity), current_pos.average_price),
                               RMul(RInt(quantity), price))
                  IN  IF total_quantity = 0
                      THEN [dr |-> dr, raised |-> TRUE]
                      ELSE [dr |-> [dr EXCEPT
                                !.positions[symbol].quantity = total_quantity,
                                !.positions[symbol].average_price =
                                    RDiv(total_cost, RInt(total_quantity)),
                                !.available_cash =
                                    RSub(dr.available_cash,
                                         RAdd(RMul(RInt(quantity), price), transaction_cost))],
                            raised |-> FALSE]
             ELSE [dr |-> [dr EXCEPT
                       !.positions = MapPut(dr.positions, symbol,
                                            [quantity |-> quantity,
                                             average_price |-> price,
                                             current_price |-> price,
                                             unrealized_pnl |-> Zero,
                                             realized_pnl |-> Zero]),
                       !.available_cash =
                           RSub(dr.available_cash,
                                RAdd(RMul(RInt(quantity), price), transaction_cost))],
                   raised |-> FALSE]
        ELSE \* SELL
             IF symbol \in DOMAIN dr.positions /\ quantity <= dr.positions[symbol].quantity
             THEN LET position == dr.positions[symbol]
                      realized_pnl ==
                          RSub(RMul(RSub(price, position.average_price), RInt(quantity)),
                               transaction_cost)
                      reduced == [position EXCEPT
                                     !.realized_pnl = RAdd(position.realized_pnl, realized_pnl),
                                     !.quantity = position.quantity - quantity]
                  IN  [dr |-> [dr EXCEPT
                            !.total_pnl = RAdd(dr.total_pnl, realized_pnl),
                            !.positions = IF reduced.quantity = 0
                                          THEN MapDel(dr.positions, symbol)
                                          ELSE MapPut(dr.positions, symbol, reduced),
                            !.available_cash =
                                RAdd(dr.available_cash,
                                     RSub(RMul(RInt(quantity), price), transaction_cost)),
                            !.trades_executed = dr.trades_executed + 1,
                            !.winning_trades = IF RGt(realized_pnl, Zero)
                                               THEN dr.winning_trades + 1
                                               ELSE dr.winning_trades],
                       raised |-> FALSE]
             ELSE \* only an error is logged
                  [dr |-> dr, raised |-> FALSE]

\* place_simulated_order with the order executed before the risk checks: a
\* refused BUY has already been paid for and booked.
DR_place_simulated_order_commit_first(dr, symbol, quantity, order_type, transaction_type, limit_price, current_price) ==
    IF current_price = None \/ current_price = Zero
    THEN [dr |-> dr, ret |-> "None"]
    ELSE
    LET execution_price == IF order_type = "LIMIT" THEN limit_price ELSE current_price
    IN  IF execution_price = None
        THEN [dr |-> dr, ret |-> "None"]
        ELSE
        LET order_value == RMul(RInt(quantity), execution_price)
            transaction_cost == DR_calculate_transaction_cost(order_value, transaction_type)
            total_cost == RAdd(order_value, transaction_cost)
            simulated_order == [order_id |-> DR_order_id,
                                symbol |-> symbol,
                                quantity |-> quantity,
                                order_type |-> order_type,
                                transaction_type |-> transaction_type,
                                price |-> execution_price,
                                status |-> "COMPLETE",
                                filled_quantity |-> quantity]
            executed == DR_execute_simulated_order(dr, simulated_order, transaction_cost)
            refused ==
                /\ transaction_type = "BUY"
                /\ \/ RGt(total_cost, dr.available_cash)
                   \/ dr.total_value = Zero
                   \/ RGt(RDiv(total_cost, dr.total_value), DR_max_position_size)
        IN  IF executed.raised
            THEN [dr |-> dr, ret |-> "None"]
            ELSE IF refused
            THEN [dr |-> executed.dr, ret |-> "None"]
            ELSE [dr |-> [executed.dr EXCEPT
                              !.orders = Append(executed.dr.orders, simulated_order)],
                  ret |-> DR_order_id]

\* DryRunTradingEngine.place_simulated_order, current_price being what
\* get_current_price returns during the call: [dr |-> the engine after the
\* call, ret |-> the order id, or "None"].
DR_place_simulated_order(dr, symbol, quantity, order_type, transaction_type, limit_price, current_price) ==
    IF current_price = None \/ current_price = Zero
    THEN [dr |-> dr, ret |-> "None"]
    ELSE
    LET execution_price == IF order_type = "LIMIT" THEN limit_price ELSE current_price
    IN  IF execution_price = None
        THEN \* quantity * None raises TypeError, caught by the handler
             [dr |-> dr, ret |-> "None"]
        ELSE
        LET order_value == RMul(RInt(quantity), execution_price)
            transaction_cost == DR_calculate_transaction_cost(order_value, transaction_type)
            total_cost == RAdd(order_value, transaction_cost)
            refused ==
                /\ transaction_type = "BUY"
                /\ \/ RGt(total_cost, dr.available_cash)
                   \/ dr.total_value = Zero   \* ZeroDivisionError, caught
                   \/ RGt(RDiv(total_cost, dr.total_value), DR_max_position_size)
            simulated_order == [order_id |-> DR_order_id,
                                symbol |-> symbol,
                                quantity |-> quantity,
                                order_type |-> order_type,
                                transaction_type |-> transaction_type,
                                price |-> execution_price,
                                status |-> "COMPLETE",
                                filled_quantity |-> quantity]
            executed == DR_execute_simulated_order(dr, simulated_order, transaction_cost)
        IN  IF refused \/ executed.raised
            THEN [dr |-> dr, ret |-> "None"]
            ELSE [dr |-> [executed.dr EXCEPT
                              !.orders = Append(executed.dr.orders, simulated_order)],
                  ret |-> DR_order_id]

\* The sum of f[k] over the keys of f.
RECURSIVE RSum(_)
RSum(f) ==
    IF DOMAIN f = {}
    THEN Zero
    ELSE LET k == CHOOSE x \in DOMAIN f : TRUE
         IN  RAdd(f[k], RSum(MapDel(f, k)))

\* sum(pos.quantity * pos.current_price for pos in positions.values())
DR_position_value(positions) ==
    RSum([s \in DOMAIN positions |->
              RMul(RInt(positions[s].quantity), positions[s].current_price)])

\* update_positions that records the current drawdown as max_drawdown.
DR_update_positions_last_drawdown(dr, feed) ==
    LET positions ==
            [s \in DOMAIN dr.positions |->
                IF feed[s] = None \/ feed[s] = Zero
                THEN dr.positions[s]
                ELSE [dr.positions[s] EXCEPT
                         !.current_price = feed[s],
                         !.unrealized_pnl =
                             RMul(RSub(feed[s], dr.positions[s].average_price),
                                  RInt(dr.positions[s].quantity))]]
        total_value == RAdd(dr.available_cash, DR_position_value(positions))
        peak_value == IF RGt(total_value, dr.peak_value) THEN total_value ELSE dr.peak_value
        marked == [dr EXCEPT !.positions = positions,
                             !.total_value = total_value,
                             !.peak_value = peak_value]
    IN  IF peak_value = Zero
        THEN [dr |-> marked, raised |-> TRUE]
        ELSE [dr |-> [marked EXCEPT
                          !.max_drawdown =
                              RDiv(RSub(peak_value, total_value), peak_value)],
              raised |-> FALSE]

\* DryRunTradingEngine.update_positions, feed[s] being what get_current_price
\* returns for s during the call: [dr |-> the engine after the call,
\* raised |-> whether it raised (ZeroDivisionError on a zero peak_value)].
DR_update_positions(dr, feed) ==
    LET positions ==
            [s \in DOMAIN dr.positions |->
                IF feed[s] = None \/ feed[s] = Zero
                THEN dr.positions[s]
                ELSE [dr.positions[s] EXCEPT
                         !.current_price = feed[s],
                         !.unrealized_pnl =
                             RMul(RSub(feed[s], dr.positions[s].average_price),
                                  RInt(dr.positions[s].quantity))]]
        total_value == RAdd(dr.available_cash, DR_position_value(positions))
        peak_value == IF RGt(total_value, dr.peak_value) THEN total_value ELSE dr.peak_value
        marked == [dr EXCEPT !.positions = positions,
                             !.total_value = total_value,
                             !.peak_value = peak_value]
    IN  IF peak_value = Zero
        THEN [dr |-> marked, raised |-> TRUE]
        ELSE [dr |-> [marked EXCEPT
                          !.max_drawdown =
                              RMax(dr.max_drawdown,
                                   RDiv(RSub(peak_value, total_value), peak_value))],
              raised |-> FALSE]

\* int(x): x with its fractional part dropped (rounding toward zero).
RTrunc(x) == IF x.n >= 0 THEN x.n \div x.d ELSE -((-x.n) \div x.d)

\* DryRunTradingEngine._calculate_position_size, where current_price is what
\* get_current_price returns during the call.
DR_calculate_position_size(dr, current_price, confidence) ==
    IF current_price = None \/ current_price = Zero
    THEN 0
    ELSE LET max_investment == RMul(dr.available_cash, DR_max_position_size)
             confidence_adjusted == RMul(max_investment, confidence)
             quantity == RTrunc(RDiv(confidence_adjusted, current_price))
         IN  IF quantity > 0 THEN quantity ELSE 0

(***************************************************************************)
(* RiskManager (risk/manager.py).                                          *)
(*                                                                         *)
(* daily_limits is the dict {} after construction; its keys are written by *)
(* reset_daily_limits (all of them) and update_pnl ("daily_pnl"), and a    *)
(* read of a key that is not there raises KeyError.  A violation is kept   *)
(* by its type; its timestamp and details are written and never read.      *)
(* A method returns "True", "False" or "None", or the name of the          *)
(* exception it raised.                                                    *)
(***************************************************************************)
\* RiskManager.__init__
RM_init(total_capital, max_position_size_pct, max_daily_loss_pct, stop_loss_pct, max_concentration_pct) ==
    [daily_limits |-> [keys |-> {},
                       max_daily_loss |-> None,
                       max_position_size |-> None,
                       trades_count |-> 0,
                       daily_pnl |-> None,
                       violations |-> << >>],
     current_positions |-> EmptyMap,
     daily_pnl |-> Zero,
     risk_violations |-> << >>,
     max_position_size_pct |-> max_position_size_pct,
     max_daily_loss_pct |-> max_daily_loss_pct,
     stop_loss_pct |-> stop_loss_pct,
     max_concentration_pct |-> max_concentration_pct,
     total_capital |-> total_capital]

\* reset_daily_limits that also forgets the tracked positions.
RM_reset_daily_limits_flat(rm) ==
    [rm EXCEPT
        !.daily_limits =
            [keys |-> {"max_daily_loss", "max_position_size", "trades_count",
                       "daily_pnl", "violations"},
             max_daily_loss |->
                 RMul(rm.total_capital, RDiv(rm.max_daily_loss_pct, RInt(100))),
             max_position_size |->
                 RMul(rm.total_capital, RDiv(rm.max_position_size_pct, RInt(100))),
             trades_count |-> 0,
             daily_pnl |-> Zero,
             violations |-> << >>],
        !.current_positions = EmptyMap,
        !.daily_pnl = Zero,
        !.risk_violations = << >>]

\* RiskManager.reset_daily_limits
RM_reset_daily_limits(rm) ==
    [rm EXCEPT
        !.daily_limits =
            [keys |-> {"max_daily_loss", "max_position_size", "trades_count",
                       "daily_pnl", "violations"},
             max_daily_loss |->
                 RMul(rm.total_capital, RDiv(rm.max_daily_loss_pct, RInt(100))),
             max_position_size |->
                 RMul(rm.total_capital, RDiv(rm.max_position_size_pct, RInt(100))),
             trades_count |-> 0,
             daily_pnl |-> Zero,
             violations |-> << >>],
        !.daily_pnl = Zero,
        !.risk_violations = << >>]

\* RiskManager._log_violation: risk_violations grows first, then
\* daily_limits["violations"], which raises KeyError when the key is absent.
RM_log_violation(rm, violation_type) ==
    LET violation == [type |-> violation_type]
        logged == [rm EXCEPT !.risk_violations = Append(rm.risk_violations, violation)]
    IN  IF "violations" \in rm.daily_limits.keys
        THEN [rm |-> [logged EXCEPT !.daily_limits.violations =
                                        Append(rm.daily_limits.violations, violation)],
              raised |-> FALSE]
        ELSE [rm |-> logged, raised |-> TRUE]

\* A check that failed: the violation is logged and False returned, unless
\* logging raised.
RM_reject(rm, violation_type) ==
    LET logged == RM_log_violation(rm, violation_type)
    IN  [rm |-> logged.rm, ret |-> IF logged.raised THEN "KeyError" ELSE "False"]

\* _validate_concentration_risk measuring the trade alone, without the
\* exposure already held.
RM_validate_concentration_risk_trade_only(rm, symbol, position_value, action) ==
    LET new_exposure == IF action = "BUY" THEN position_value ELSE Zero
    IN  IF rm.total_capital = Zero
        THEN [rm |-> rm, ret |-> "ZeroDivisionError"]
        ELSE IF RGt(RMul(RDiv(new_exposure, rm.total_capital), RInt(100)),
                    rm.max_concentration_pct)
        THEN RM_reject(rm, "concentration_risk_exceeded")
        ELSE [rm |-> rm, ret |-> "True"]

\* RiskManager._validate_concentration_risk
RM_validate_concentration_risk(rm, symbol, position_value, action) ==
    LET current_exposure == IF symbol \in DOMAIN rm.current_positions
                            THEN rm.current_positions[symbol].value
                            ELSE Zero
        new_exposure == IF action = "BUY"
                        THEN RAdd(current_exposure, position_value)
                        ELSE RMax(Zero, RSub(current_exposure, position_value))
    IN  IF rm.total_capital = Zero
        THEN [rm |-> rm, ret |-> "ZeroDivisionError"]
        ELSE IF RGt(RMul(RDiv(new_exposure, rm.total_capital), RInt(100)),
                    rm.max_concentration_pct)
        THEN RM_reject(rm, "concentration_risk_exceeded")
        ELSE [rm |-> rm, ret |-> "True"]

\* The stop-loss distance of a signal, in percent of its price.
RM_stop_loss_distance_pct(signal) ==
    IF Upper(signal.action) = "BUY"
    THEN RMul(RDiv(RSub(signal.price, signal.stop_loss), signal.price), RInt(100))
    ELSE RMul(RDiv(RSub(signal.stop_loss, signal.price), signal.price), RInt(100))

\* _validate_stop_loss refusing a distance of stop_loss_pct exactly.
RM_validate_stop_loss_strict(rm, signal) ==
    IF signal.stop_loss = None \/ signal.stop_loss = Zero
    THEN RM_reject(rm, "missing_stop_loss")
    ELSE IF RGe(RM_stop_loss_distance_pct(signal), rm.stop_loss_pct)
    THEN RM_reject(rm, "stop_loss_too_wide")
    ELSE [rm |-> rm, ret |-> "True"]

\* RiskManager._validate_stop_loss
RM_validate_stop_loss(rm, signal) ==
    IF signal.stop_loss = None \/ signal.stop_loss = Zero
    THEN RM_reject(rm, "missing_stop_loss")
    ELSE IF RGt(RM_stop_loss_distance_pct(signal), rm.stop_loss_pct)
    THEN RM_reject(rm, "stop_loss_too_wide")
    ELSE [rm |-> rm, ret |-> "True"]

\* validate_signal with the daily loss check moved ahead of the position size
\* check.
RM_validate_signal_loss_first(rm, signal) ==
    IF ~SignalStructurallyValid(signal)
    THEN RM_reject(rm, "invalid_signal_parameters")
    ELSE
    LET position_value == RMul(RInt(signal.quantity), signal.price)
    IN  IF "max_daily_loss" \notin rm.daily_limits.keys
        THEN [rm |-> rm, ret |-> "KeyError"]
        ELSE IF RLt(rm.daily_pnl, RNeg(rm.daily_limits.max_daily_loss))
        THEN RM_reject(rm, "daily_loss_limit_exceeded")
        ELSE IF "max_position_size" \notin rm.daily_limits.keys
        THEN [rm |-> rm, ret |-> "KeyError"]
        ELSE IF RGt(position_value, rm.daily_limits.max_position_size)
        THEN RM_reject(rm, "position_size_exceeded")
        ELSE
        LET concentration ==
                RM_validate_concentration_risk(rm, signal.symbol, position_value,
                                               Upper(signal.action))
        IN  IF concentration.ret # "True"
            THEN concentration
            ELSE RM_validate_stop_loss(rm, signal)

\* RiskManager.validate_signal
RM_validate_signal(rm, signal) ==
    IF ~SignalStructurallyValid(signal)
    THEN RM_reject(rm, "invalid_signal_parameters")
    ELSE
    LET position_value == RMul(RInt(signal.quantity), signal.price)
    IN  IF "max_position_size" \notin rm.daily_limits.keys
        THEN [rm |-> rm, ret |-> "KeyError"]
        ELSE IF RGt(position_value, rm.daily_limits.max_position_size)
        THEN RM_reject(rm, "position_size_exceeded")
        ELSE IF "max_daily_loss" \notin rm.daily_limits.keys
        THEN [rm |-> rm, ret |-> "KeyError"]
        ELSE IF RLt(rm.daily_pnl, RNeg(rm.daily_limits.max_daily_loss))
        THEN RM_reject(rm, "daily_loss_limit_exceeded")
        ELSE
        LET concentration ==
                RM_validate_concentration_risk(rm, signal.symbol, position_value,
                                               Upper(signal.action))
        IN  IF concentration.ret # "True"
            THEN concentration
            ELSE RM_validate_stop_loss(rm, signal)

\* The quantity left by a SELL without the floor at zero.
RM_remaining_quantity_unfloored(held, quantity) == held - quantity

\* max(0, position["quantity"] - quantity)
RM_remaining_quantity(held, quantity) ==
    IF held - quantity > 0 THEN held - quantity ELSE 0

\* RiskManager.update_position
RM_update_position(rm, symbol, action, quantity, price) ==
    LET created == IF symbol \in DOMAIN rm.current_positions
                   THEN rm.current_positions
                   ELSE MapPut(rm.current_positions, symbol,
                               [quantity |-> 0, avg_price |-> Zero, value |-> Zero])
        position == created[symbol]
    IN  IF Upper(action) = "BUY"
        THEN LET total_quantity == position.quantity + quantity
                 total_value == RAdd(RMul(RInt(position.quantity), position.avg_price),
                                     RMul(RInt(quantity), price))
             IN  [rm EXCEPT !.current_positions =
                      MapPut(created, symbol,
                             [quantity |-> total_quantity,
                              avg_price |-> IF total_quantity > 0
                                            THEN RDiv(total_value, RInt(total_quantity))
                                            ELSE Zero,
                              value |-> total_value])]
        ELSE IF Upper(action) = "SELL"
        THEN LET left == RM_remaining_quantity(position.quantity, quantity)
             IN  [rm EXCEPT !.current_positions =
                      MapPut(created, symbol,
                             IF left = 0
                             THEN [quantity |-> 0, avg_price |-> Zero, value |-> Zero]
                             ELSE [position EXCEPT
                                      !.quantity = left,
                                      !.value = RMul(RInt(left), position.avg_price)])]
        ELSE [rm EXCEPT !.current_positions = created]

\* RiskManager.update_pnl: daily_pnl and daily_limits["daily_pnl"] are
\* written before daily_limits["max_daily_loss"] is read.
RM_update_pnl(rm, pnl_change) ==
    LET daily_pnl == RAdd(rm.daily_pnl, pnl_change)
        updated == [rm EXCEPT !.daily_pnl = daily_pnl,
                              !.daily_limits.daily_pnl = daily_pnl,
                              !.daily_limits.keys = @ \cup {"daily_pnl"}]
    IN  IF "max_daily_loss" \notin updated.daily_limits.keys
        THEN [rm |-> updated, ret |-> "KeyError"]
        ELSE IF RLt(daily_pnl, RNeg(updated.daily_limits.max_daily_loss))
        THEN LET logged == RM_log_violation(updated, "daily_loss_limit_breached")
             IN  [rm |-> logged.rm, ret |-> IF logged.raised THEN "KeyError" ELSE "None"]
        ELSE [rm |-> updated, ret |-> "None"]

\* The violation count above which is_trading_halted reports a halt.
RM_violation_halt_count == 10

\* RiskManager.is_trading_halted
RM_is_trading_halted(rm) ==
    IF "max_daily_loss" \notin rm.daily_limits.keys
    THEN "KeyError"
    ELSE IF RLt(rm.daily_pnl, RNeg(rm.daily_limits.max_daily_loss))
    THEN "True"
    ELSE IF Len(rm.risk_violations) > RM_violation_halt_count
    THEN "True"
    ELSE "False"

(***************************************************************************)
(* RiskManager and Portfolio of execution/portfolio_manager.py (PM_, PF_). *)
(*                                                                         *)
(* A position keeps shares, entry_price, current_price and confidence; a   *)
(* trade keeps ticker, action, shares, price and commission.  Timestamps   *)
(* and the strategy and reason labels are written and never read, and are  *)
(* left out.  execute_trade returns "True" or "False", or the name of the  *)
(* exception it raised.                                                    *)
(***************************************************************************)
PositionSizeMethod == {"equal_weight", "risk_parity", "kelly_criterion", "volatility_target"}

\* RiskManager.__init__ defaults (Portfolio constructs RiskManager()).
PM_init ==
    [max_position_size |-> Rat(1, 10),
     max_portfolio_risk |-> Rat(2, 100),
     stop_loss_pct |-> Rat(5, 100),
     take_profit_pct |-> Rat(15, 100)]

\* calculate_position_size whose Kelly fraction is capped at max_position_size
\* and not floored at 0.
PM_calculate_position_size_kelly_unfloored(pm, portfolio_value, entry_price, volatility, confidence, method) ==
    LET sized(q) == [raised |-> FALSE, size |-> q]
        zero_division == [raised |-> TRUE, size |-> None]
        cap_value == RMul(portfolio_value, pm.max_position_size)
    IN  IF method = "equal_weight"
        THEN IF entry_price = Zero THEN zero_division
             ELSE sized(RDiv(cap_value, entry_price))
        ELSE IF method = "risk_parity"
        THEN LET target_risk == RMul(portfolio_value, pm.max_portfolio_risk)
                 position_risk == RMul(volatility, entry_price)
             IN  IF RGt(position_risk, Zero)
                 THEN sized(RMin(RDiv(target_risk, position_risk),
                                 RDiv(cap_value, entry_price)))
                 ELSE IF entry_price = Zero THEN zero_division
                 ELSE sized(RDiv(cap_value, entry_price))
        ELSE IF method = "volatility_target"
        THEN LET target_vol == Rat(2, 100)
             IN  IF RGt(volatility, Zero)
                 THEN IF entry_price = Zero THEN zero_division
                      ELSE sized(RMin(RDiv(RDiv(RMul(RMul(portfolio_value, target_vol),
                                                     confidence),
                                                volatility),
                                           entry_price),
                                      RDiv(cap_value, entry_price)))
                 ELSE IF entry_price = Zero THEN zero_division
                 ELSE sized(RDiv(cap_value, entry_price))
        ELSE IF method = "kelly_criterion"
        THEN LET win_rate == confidence
                 avg_win == Rat(1, 10)
                 avg_loss == Rat(5, 100)
                 kelly_fraction ==
                     RDiv(RSub(RMul(win_rate, avg_win),
                               RMul(RSub(RInt(1), win_rate), avg_loss)),
                          avg_win)
                 clamped == RMin(kelly_fraction, pm.max_position_size)
             IN  IF entry_price = Zero THEN zero_division
                 ELSE sized(RDiv(RMul(portfolio_value, clamped), entry_price))
        ELSE sized(Zero)

\* RiskManager.calculate_position_size: [raised |-> TRUE] for the
\* ZeroDivisionError of a zero entry_price, else [raised |-> FALSE, size |-> q].
PM_calculate_position_size(pm, portfolio_value, entry_price, volatility, confidence, method) ==
    LET sized(q) == [raised |-> FALSE, size |-> q]
        zero_division == [raised |-> TRUE, size |-> None]
        cap_value == RMul(portfolio_value, pm.max_position_size)
    IN  IF method = "equal_weight"
        THEN IF entry_price = Zero THEN zero_division
             ELSE sized(RDiv(cap_value, entry_price))
        ELSE IF method = "risk_parity"
        THEN LET target_risk == RMul(portfolio_value, pm.max_portfolio_risk)
                 position_risk == RMul(volatility, entry_price)
             IN  IF RGt(position_risk, Zero)
                 THEN sized(RMin(RDiv(target_risk, position_risk),
                                 RDiv(cap_value, entry_price)))
                 ELSE IF entry_price = Zero THEN zero_division
                 ELSE sized(RDiv(cap_value, entry_price))
        ELSE IF method = "volatility_target"
        THEN LET target_vol == Rat(2, 100)
             IN  IF RGt(volatility, Zero)
                 THEN IF entry_price = Zero THEN zero_division
                      ELSE sized(RMin(RDiv(RDiv(RMul(RMul(portfolio_value, target_vol),
                                                     confidence),
                                                volatility),
                                           entry_price),
                                      RDiv(cap_value, entry_price)))
                 ELSE IF entry_price = Zero THEN zero_division
                 ELSE sized(RDiv(cap_value, entry_price))
        ELSE IF method = "kelly_criterion"
        THEN LET win_rate == confidence
                 avg_win == Rat(1, 10)
                 avg_loss == Rat(5, 100)
                 kelly_fraction ==
                     RDiv(RSub(RMul(win_rate, avg_win),
                               RMul(RSub(RInt(1), win_rate), avg_loss)),
                          avg_win)
                 clamped == RMax(Zero, RMin(kelly_fraction, pm.max_position_size))
             IN  IF entry_price = Zero THEN zero_division
                 ELSE sized(RDiv(RMul(portfolio_value, clamped), entry_price))
        ELSE sized(Zero)

\* Portfolio.__init__
PF_init(initial_capital, commission_rate, position_size_method) ==
    [initial_capital |-> initial_capital,
     cash |-> initial_capital,
     positions |-> EmptyMap,
     trades |-> << >>,
     commission_rate |-> commission_rate,
     risk_manager |-> PM_init,
     position_size_method |-> position_size_method,
     daily_values |-> << >>]

\* Position.market_value
PF_market_value(position) == RMul(position.shares, position.current_price)

\* Portfolio.portfolio_value
PF_portfolio_value(pf) ==
    RAdd(pf.cash, RSum([t \in DOMAIN pf.positions |-> PF_market_value(pf.positions[t])]))

\* update_position_prices that drops the positions it has no price for.
PF_update_position_prices_priced_only(pf, price_data) ==
    [pf EXCEPT !.positions =
        [t \in DOMAIN pf.positions \cap DOMAIN price_data |->
            [pf.positions[t] EXCEPT !.current_price = price_data[t]]]]

\* Portfolio.update_position_prices
PF_update_position_prices(pf, price_data) ==
    [pf EXCEPT !.positions =
        [t \in DOMAIN pf.positions |->
            IF t \in DOMAIN price_data
            THEN [pf.positions[t] EXCEPT !.current_price = price_data[t]]
            ELSE pf.positions[t]]]

\* Closing a position by emptying the whole book.
PF_close_position_all(positions, ticker) == EmptyMap

\* del self.positions[ticker]
PF_close_position(positions, ticker) == MapDel(positions, ticker)

\* Portfolio.execute_trade
PF_execute_trade(pf, ticker, action, price, confidence, volatility) ==
    IF action = "BUY"
    THEN LET sizing == PM_calculate_position_size(pf.risk_manager, PF_portfolio_value(pf),
                                                  price, volatility, confidence,
                                                  pf.position_size_method)
         IN  IF sizing.raised
             THEN [pf |-> pf, ret |-> "ZeroDivisionError"]
             ELSE
             LET position_size == sizing.size
                 cost == RMul(position_size, price)
                 commission == RMul(cost, pf.commission_rate)
                 total_cost == RAdd(cost, commission)
                 paid == [pf EXCEPT !.cash = RSub(pf.cash, total_cost)]
                 trade == [ticker |-> ticker, action |-> action, shares |-> position_size,
                           price |-> price, commission |-> commission]
             IN  IF RLe(total_cost, pf.cash)
                 THEN IF ticker \in DOMAIN pf.positions
                      THEN LET old_position == pf.positions[ticker]
                               total_shares == RAdd(old_position.shares, position_size)
                           IN  IF total_shares = Zero
                               THEN \* the average divides by zero after cash was paid
                                    [pf |-> paid, ret |-> "ZeroDivisionError"]
                               ELSE [pf |-> [paid EXCEPT
                                        !.positions[ticker] =
                                            [shares |-> total_shares,
                                             entry_price |->
                                                 RDiv(RAdd(RMul(old_position.shares,
                                                                old_position.entry_price),
                                                           RMul(position_size, price)),
                                                      total_shares),
                                             current_price |-> price,
                                             confidence |-> RMax(old_position.confidence,
                                                                 confidence)],
                                        !.trades = Append(pf.trades, trade)],
                                     ret |-> "True"]
                      ELSE [pf |-> [paid EXCEPT
                               !.positions = MapPut(pf.positions, ticker,
                                                    [shares |-> position_size,
                                                     entry_price |-> price,
                                                     current_price |-> price,
                                                     confidence |-> confidence]),
                               !.trades = Append(pf.trades, trade)],
                            ret |-> "True"]
                 ELSE [pf |-> pf, ret |-> "False"]
    ELSE IF action = "SELL" /\ ticker \in DOMAIN pf.positions
    THEN LET position == pf.positions[ticker]
             proceeds == RMul(position.shares, price)
             commission == RMul(proceeds, pf.commission_rate)
             net_proceeds == RSub(proceeds, commission)
         IN  [pf |-> [pf EXCEPT
                  !.cash = RAdd(pf.cash, net_proceeds),
                  !.trades = Append(pf.trades,
                                    [ticker |-> ticker, action |-> action,
                                     shares |-> position.shares, price |-> price,
                                     commission |-> commission]),
                  !.positions = PF_close_position(pf.positions, ticker)],
              ret |-> "True"]
    ELSE [pf |-> pf, ret |-> "False"]

\* Position.unrealized_return
PF_unrealized_return(position) ==
    RDiv(RSub(position.current_price, position.entry_price), position.entry_price)

\* should_stop_loss that fires only strictly below -stop_loss_pct.
PM_should_stop_loss_strict(pm, position) ==
    RLt(PF_unrealized_return(position), RNeg(pm.stop_loss_pct))

\* RiskManager.should_stop_loss
PM_should_stop_loss(pm, position) ==
    RLe(PF_unrealized_return(position), RNeg(pm.stop_loss_pct))

\* RiskManager.should_take_profit
PM_should_take_profit(pm, position) ==
    RGe(PF_unrealized_return(position), pm.take_profit_pct)

\* The places in the ledger of the BUYs of the ticker that no SELL of it
\* follows.
PF_open_buys(pf, ticker) ==
    {i \in DOMAIN pf.trades :
        /\ pf.trades[i].ticker = ticker
        /\ pf.trades[i].action = "BUY"
        /\ \A j \in DOMAIN pf.trades :
               j > i => ~(/\ pf.trades[j].ticker = ticker
                          /\ pf.trades[j].action = "SELL")}

\* The place in the ledger of the BUY that inserted the key ticker into
\* self.positions: the first BUY of the ticker after its last SELL (a later
\* BUY assigns to the existing key, and a SELL deletes it).
PF_inserted_at(pf, ticker) ==
    CHOOSE i \in PF_open_buys(pf, ticker) : \A j \in PF_open_buys(pf, ticker) : i <= j

\* The key inserted first among the tickers.
PF_first_key(pf, tickers) ==
    CHOOSE t \in tickers : \A u \in tickers : PF_inserted_at(pf, t) <= PF_inserted_at(pf, u)

\* The keys of self.positions.items(), in insertion order.
RECURSIVE PF_positions_items(_, _)
PF_positions_items(pf, tickers) ==
    IF tickers = {}
    THEN << >>
    ELSE <<PF_first_key(pf, tickers)>>
             \o PF_positions_items(pf, tickers \ {PF_first_key(pf, tickers)})

\* position.current_price = current_prices[ticker]
PF_mark_position(pf, ticker, price) ==
    [pf EXCEPT !.positions[ticker].current_price = price]

\* The rest of the body of the first loop of apply_risk_management for a
\* ticker just marked: the position is collected when its stop-loss or its
\* take-profit fires.  unrealized_return divides by entry_price.
PF_collect_marked(acc, marked, ticker) ==
    IF marked.positions[ticker].entry_price = Zero
    THEN [acc EXCEPT !.pf = marked, !.raised = TRUE]
    ELSE IF \/ PM_should_stop_loss(marked.risk_manager, marked.positions[ticker])
            \/ PM_should_take_profit(marked.risk_manager, marked.positions[ticker])
    THEN [acc EXCEPT !.pf = marked, !.positions_to_close = Append(@, ticker)]
    ELSE [acc EXCEPT !.pf = marked]

\* The body of the first loop of apply_risk_management for one ticker.
PF_collect_position(acc, current_prices, ticker) ==
    IF ticker \notin DOMAIN current_prices
    THEN acc
    ELSE PF_collect_marked(acc, PF_mark_position(acc.pf, ticker, current_prices[ticker]),
                           ticker)

\* The first loop of apply_risk_management from item i on.
RECURSIVE PF_collect_positions_to_close(_, _, _, _)
PF_collect_positions_to_close(acc, current_prices, items, i) ==
    IF i > Len(items) \/ acc.raised
    THEN acc
    ELSE PF_collect_positions_to_close(PF_collect_position(acc, current_prices, items[i]),
                                       current_prices, items, i + 1)

\* The body of the second loop of apply_risk_management: a SELL of the
\* position at its price (volatility takes its default 0.02).
PF_sell_position(pf, current_prices, ticker) ==
    PF_execute_trade(pf, ticker, "SELL", current_prices[ticker],
                     pf.positions[ticker].confidence, Rat(2, 100)).pf

\* The second loop of apply_risk_management from entry i on.
RECURSIVE PF_close_positions(_, _, _, _)
PF_close_positions(pf, current_prices, positions_to_close, i) ==
    IF i > Len(positions_to_close)
    THEN pf
    ELSE PF_close_positions(PF_sell_position(pf, current_prices, positions_to_close[i]),
                            current_prices, positions_to_close, i + 1)

\* What apply_risk_management does with the positions its first loop
\* collected.
PF_close_collected(collected, current_prices) ==
    IF collected.raised
    THEN [pf |-> collected.pf, ret |-> "ZeroDivisionError"]
    ELSE [pf |-> PF_close_positions(collected.pf, current_prices,
                                    collected.positions_to_close, 1),
          ret |-> "None"]

\* Portfolio.apply_risk_management
PF_apply_risk_management(pf, current_prices) ==
    PF_close_collected(
        PF_collect_positions_to_close(
            [pf |-> pf, positions_to_close |-> << >>, raised |-> FALSE],
            current_prices, PF_positions_items(pf, DOMAIN pf.positions), 1),
        current_prices)

\* portfolio.daily_values.append(portfolio.portfolio_value)
PF_record_daily_value(pf) ==
    [pf EXCEPT !.daily_values = Append(@, PF_portfolio_value(pf))]

\* The record of the day's value once apply_risk_management has returned;
\* an exception of it ends the backtest.
PF_record_day(managed) ==
    IF managed.ret = "None"
    THEN [pf |-> PF_record_daily_value(managed.pf), ret |-> "None"]
    ELSE managed

\* One day of the loop of run_portfolio_backtest on which no strategy gives a
\* signal: the positions are marked, the stops applied and the day's value
\* recorded.
PF_backtest_day(pf, current_prices) ==
    PF_record_day(PF_apply_risk_management(PF_update_position_prices(pf, current_prices),
                                           current_prices))

\* len(self.daily_returns): run_portfolio_backtest appends one return for every
\* daily value after the first.
PF_daily_returns_len(pf) ==
    IF Len(pf.daily_values) > 1 THEN Len(pf.daily_values) - 1 ELSE 0

\* The places in the ledger of the SELL trades.
PF_sell_trades(pf) == {i \in DOMAIN pf.trades : pf.trades[i].action = "SELL"}

\* winning_trades of get_performance_metrics: the SELL trades whose ticker is
\* held now at an entry price below the trade's price.
PF_winning_trades(pf) ==
    Cardinality({i \in PF_sell_trades(pf) :
        \E t \in DOMAIN pf.positions :
            /\ t = pf.trades[i].ticker
            /\ RGt(RSub(pf.trades[i].price, pf.positions[t].entry_price), Zero)})

\* round(x, 2) of a value that is not negative.
PF_round2(x) == Rat(RTrunc(RAdd(RMul(x, RInt(100)), Rat(1, 2))), 100)

\* win_rate of get_performance_metrics, in percent.
PF_win_rate(pf) ==
    IF Cardinality(PF_sell_trades(pf)) > 0
    THEN Rat(PF_winning_trades(pf) * 100, Cardinality(PF_sell_trades(pf)))
    ELSE Zero

\* Portfolio.get_performance_metrics: the empty dict under two daily returns,
\* else the metrics that are counted from the ledger and the book (the
\* statistics of the returns are left out).
PF_get_performance_metrics(pf) ==
    IF PF_daily_returns_len(pf) < 2
    THEN [empty |-> TRUE, win_rate_pct |-> Zero, total_trades |-> 0,
          current_positions |-> 0]
    ELSE [empty |-> FALSE,
          win_rate_pct |-> PF_round2(PF_win_rate(pf)),
          total_trades |-> Len(pf.trades),
          current_positions |-> Cardinality(DOMAIN pf.positions)]

(***************************************************************************)
(* Order validation (orders/validation.py).                                *)
(*                                                                         *)
(* An order is a dict from field names to strings and numbers.  A value is *)
(* Absent (the key is not in the dict), a string with its length, or a     *)
(* number.                                                                 *)
(***************************************************************************)
Absent == [t |-> "absent", s |-> "", len |-> 0, v |-> 0]
Str(s, len) == [t |-> "str", s |-> s, len |-> len, v |-> 0]
Num(v) == [t |-> "num", s |-> "", len |-> 0, v |-> v]

\* The values of the enumerations.
OrderType == {"MARKET", "LIMIT", "STOP", "STOP_LIMIT"}
OrderDirection == {"BUY", "SELL"}
TimeInForce == {"DAY", "GTC", "IOC", "FOK"}

\* bool(value) of a value of the dict.
VO_truthy(value) ==
    IF value.t = "str" THEN value.len > 0 ELSE value.t = "num" /\ value.v # 0

\* ValidationError(field, message, severity)
ValidationError(field, message, severity) ==
    [field |-> field, message |-> message, severity |-> severity]

\* if condition: errors.append(ValidationError(field, message, "error"))
VO_error_if(condition, field, message) ==
    IF condition THEN <<ValidationError(field, message, "error")>> ELSE << >>

\* The loop over required_fields.
VO_required_fields == <<"symbol", "quantity", "direction", "order_type">>
\* The test of the loop that takes an empty value for a present one.
VO_missing_absent_only(order, field) == order[field].t = "absent"
\* field not in order or not order[field]
VO_missing(order, field) == order[field].t = "absent" \/ ~VO_truthy(order[field])
VO_required_errors(order) ==
    VO_error_if(VO_missing(order, "symbol"), "symbol", "Missing required field") \o
    VO_error_if(VO_missing(order, "quantity"), "quantity", "Missing required field") \o
    VO_error_if(VO_missing(order, "direction"), "direction", "Missing required field") \o
    VO_error_if(VO_missing(order, "order_type"), "order_type", "Missing required field")

\* not isinstance(value, (int, float)) or value <= 0
VO_not_positive_number(value) == value.t # "num" \/ value.v <= 0

\* value in [e.value for e in Enum]
VO_in_values(value, values) == value.t = "str" /\ value.s \in values

\* Validate quantity, direction and order type.
VO_quantity_errors(order) ==
    VO_error_if(VO_not_positive_number(order.quantity), "quantity",
                "Quantity must be a positive number")
VO_direction_errors(order) ==
    VO_error_if(~VO_in_values(order.direction, OrderDirection), "direction",
                "Invalid direction")
VO_order_type_errors(order) ==
    VO_error_if(~VO_in_values(order.order_type, OrderType), "order_type",
                "Invalid order type")

\* order_type == value
VO_is_type(order, type) == order.order_type.t = "str" /\ order.order_type.s = type

\* Validate order type specific requirements.
VO_type_price_errors(order) ==
    VO_error_if(VO_is_type(order, "LIMIT") /\ order.limit_price.t = "absent",
                "limit_price", "Limit price is required for LIMIT orders") \o
    VO_error_if(VO_is_type(order, "STOP") /\ order.stop_price.t = "absent",
                "stop_price", "Stop price is required for STOP orders") \o
    VO_error_if(VO_is_type(order, "STOP_LIMIT") /\ order.stop_price.t = "absent",
                "stop_price", "Stop price is required for STOP_LIMIT orders") \o
    VO_error_if(VO_is_type(order, "STOP_LIMIT") /\ order.limit_price.t = "absent",
                "limit_price", "Limit price is required for STOP_LIMIT orders")

\* Validate prices if present.
VO_price_errors(order) ==
    VO_error_if(order.limit_price.t # "absent" /\ VO_not_positive_number(order.limit_price),
                "limit_price", "Limit price must be a positive number") \o
    VO_error_if(order.stop_price.t # "absent" /\ VO_not_positive_number(order.stop_price),
                "stop_price", "Stop price must be a positive number")

\* Time in force.
VO_time_in_force_errors(order) ==
    VO_error_if(order.time_in_force.t # "absent"
                    /\ ~VO_in_values(order.time_in_force, TimeInForce),
                "time_in_force", "Invalid time in force")

\* Validate symbol format, once len(symbol) has returned.
VO_symbol_errors(order) ==
    VO_error_if(~VO_truthy(order.symbol) \/ order.symbol.len < 1 \/ order.symbol.len > 20,
                "symbol", "Invalid symbol format")

\* The errors of an order that has its required fields, in the order of the
\* appends.
VO_errors(order) ==
    VO_quantity_errors(order) \o VO_direction_errors(order) \o
    VO_order_type_errors(order) \o VO_type_price_errors(order) \o
    VO_price_errors(order) \o VO_time_in_force_errors(order) \o VO_symbol_errors(order)

\* Add warnings for large orders.
VO_warnings(order) ==
    IF order.quantity.v > 10000
    THEN <<ValidationError("quantity", "Large order quantity detected", "warning")>>
    ELSE << >>

\* ValidationResult(is_valid, errors, warnings), returned.
ValidationResult(is_valid, errors, warnings) ==
    [raised |-> "", is_valid |-> is_valid, errors |-> errors, warnings |-> warnings]

\* An exception that leaves validate_order.
VO_raise(exception) ==
    [raised |-> exception, is_valid |-> FALSE, errors |-> << >>, warnings |-> << >>]

\* validate_order.  len(symbol) raises TypeError for a number, and
\* quantity > 10000 raises TypeError for a string.
validate_order(order) ==
    IF Len(VO_required_errors(order)) > 0
    THEN ValidationResult(FALSE, VO_required_errors(order), << >>)
    ELSE IF order.symbol.t = "num" \/ order.quantity.t = "str"
    THEN VO_raise("TypeError")
    ELSE ValidationResult(Len(VO_errors(order)) = 0, VO_errors(order), VO_warnings(order))

(***************************************************************************)
(* ManualExecutionInterface (execution/manual_interface.py).               *)
(*                                                                         *)
(* A signal of the daily cycle carries, beside the five fields above,      *)
(* signal_id, strength and estimated_value; NoId and None stand for an     *)
(* absent key.  A signal id is a text followed by a number ("signal_0" is  *)
(* text "signal_" and number 0; a text alone has number -1).               *)
(***************************************************************************)
NoId == [text |-> "", n |-> -1]

\* f"signal_{n}"
DefaultSignalId(n) == [text |-> "signal_", n |-> n]

\* ManualExecutionInterface.__init__
MI_init(max_order_value) ==
    [pending_signals |-> << >>,
     executed_trades |-> << >>,
     max_order_value |-> max_order_value]

\* ManualExecutionInterface._simulate_user_decision
MI_simulate_user_decision(mi, signal) ==
    LET strength == IF signal.strength = None THEN Rat(1, 2) ELSE signal.strength
        estimated_value == IF signal.estimated_value = None
                           THEN Zero
                           ELSE signal.estimated_value
        will_execute == /\ RGt(strength, Rat(7, 10))
                        /\ RLe(estimated_value, mi.max_order_value)
                        /\ Upper(signal.action) \in {"BUY", "SELL"}
        price_adjustment == IF Upper(signal.action) = "BUY"
                            THEN Rat(99, 100)
                            ELSE Rat(101, 100)
    IN  IF will_execute
        THEN [executed |-> TRUE,
              price |-> RMul(signal.price, price_adjustment),
              quantity |-> signal.quantity]
        ELSE [executed |-> FALSE, price |-> None, quantity |-> 0]

\* The list s without the entries whose signal_id is id.
RECURSIVE WithoutSignalId(_, _)
WithoutSignalId(s, id) ==
    IF s = << >>
    THEN << >>
    ELSE IF Head(s).signal_id = id
    THEN WithoutSignalId(Tail(s), id)
    ELSE <<Head(s)>> \o WithoutSignalId(Tail(s), id)

\* ManualExecutionInterface.present_signal
MI_present_signal(mi, signal) ==
    LET signal_id == IF signal.signal_id = NoId
                     THEN DefaultSignalId(Len(mi.pending_signals))
                     ELSE signal.signal_id
        enhanced_signal == [signal |-> signal, signal_id |-> signal_id,
                            status |-> "pending"]
        pending == Append(mi.pending_signals, enhanced_signal)
        user_decision == MI_simulate_user_decision(mi, signal)
        result == [signal_id |-> signal_id,
                   user_executed |-> user_decision.executed,
                   execution_price |-> user_decision.price,
                   execution_quantity |-> user_decision.quantity]
    IN  IF user_decision.executed
        THEN [mi |-> [mi EXCEPT
                         !.executed_trades =
                             Append(mi.executed_trades,
                                    [signal |-> signal, signal_id |-> signal_id,
                                     status |-> "pending",
                                     user_executed |-> TRUE,
                                     execution_price |-> user_decision.price,
                                     execution_quantity |-> user_decision.quantity,
                                     execution_method |-> "manual"]),
                         !.pending_signals = WithoutSignalId(pending, signal_id)],
              ret |-> result]
        ELSE [mi |-> [mi EXCEPT !.pending_signals = pending], ret |-> result]

\* The place of the first entry of the list whose signal_id is id, or 0.
MI_first_with_id(pending_signals, signal_id) ==
    LET found == {i \in DOMAIN pending_signals : pending_signals[i].signal_id = signal_id}
    IN  IF found = {} THEN 0 ELSE CHOOSE i \in found : \A j \in found : i <= j

\* list.remove(x): the list without its first entry equal to x.
MI_remove(list, x) ==
    LET first == CHOOSE i \in DOMAIN list : list[i] = x /\ \A j \in 1..(i - 1) : list[j] # x
    IN  SubSeq(list, 1, first - 1) \o SubSeq(list, first + 1, Len(list))

\* The executed trade mark_signal_executed makes of a pending signal.
MI_executed_trade(signal, execution_details) ==
    [signal |-> signal.signal, signal_id |-> signal.signal_id, status |-> signal.status,
     user_executed |-> TRUE,
     execution_price |-> execution_details.execution_price,
     execution_quantity |-> execution_details.execution_quantity,
     execution_method |-> "manual"]

\* ManualExecutionInterface.mark_signal_executed
MI_mark_signal_executed(mi, signal_id, execution_details) ==
    IF MI_first_with_id(mi.pending_signals, signal_id) = 0
    THEN [mi |-> mi, ret |-> FALSE]
    ELSE [mi |-> [mi EXCEPT
                     !.executed_trades =
                         Append(@, MI_executed_trade(
                                       mi.pending_signals[MI_first_with_id(mi.pending_signals,
                                                                           signal_id)],
                                       execution_details)),
                     !.pending_signals =
                         MI_remove(@, mi.pending_signals[MI_first_with_id(mi.pending_signals,
                                                                          signal_id)])],
          ret |-> TRUE]

\* total_signals_presented of export_daily_summary
MI_total_signals_presented(mi) == Len(mi.pending_signals) + Len(mi.executed_trades)

(***************************************************************************)
(* ExecutionPerformanceTracker (monitoring/performance_tracker.py).        *)
(*                                                                         *)
(* daily_metrics is the dict {} until start_daily_session; alert_thresholds*)
(* comes from the configuration, with or without "low_success_rate".  An   *)
(* execution result is [present, value]: present is FALSE for None.        *)
(***************************************************************************)
\* ExecutionPerformanceTracker.__init__
TR_init(has_low_success_rate) ==
    [daily_metrics |-> [started |-> FALSE,
                        signals_received |-> 0,
                        signals_executed_paper |-> 0,
                        signals_executed_manual |-> 0,
                        total_pnl |-> Zero,
                        success_rate |-> Zero,
                        alerts_triggered |-> << >>],
     signal_tracking |-> << >>,
     alert_thresholds |-> [daily_loss_pct |-> RInt(2),
                           has_low_success_rate |-> has_low_success_rate,
                           low_success_rate |-> Rat(4, 10)]]

\* ExecutionPerformanceTracker.start_daily_session
TR_start_daily_session(tr) ==
    [tr EXCEPT !.daily_metrics = [started |-> TRUE,
                                  signals_received |-> 0,
                                  signals_executed_paper |-> 0,
                                  signals_executed_manual |-> 0,
                                  total_pnl |-> Zero,
                                  success_rate |-> Zero,
                                  alerts_triggered |-> << >>],
               !.signal_tracking = << >>]

\* paper_result.get('pnl', 0)
TR_paper_pnl(paper_result) ==
    IF paper_result.value.pnl = None THEN Zero ELSE paper_result.value.pnl

\* How many tracked signals have a paper P&L above zero.
RECURSIVE TR_successful_trades(_)
TR_successful_trades(tracking) ==
    IF tracking = << >>
    THEN 0
    ELSE (IF RGt(TR_paper_pnl(Head(tracking).paper_result), Zero) THEN 1 ELSE 0)
         + TR_successful_trades(Tail(tracking))

\* ExecutionPerformanceTracker._check_alerts: [tr, raised].  Reading the pnl
\* of a tracked signal whose paper_result is None raises AttributeError, and
\* reading alert_thresholds['low_success_rate'] when it is absent raises
\* KeyError.
TR_check_alerts(tr) ==
    LET metrics == tr.daily_metrics
        loss_pct == RMul(RDiv(RNeg(metrics.total_pnl), RInt(1000000)), RInt(100))
        loss_alerted ==
            IF RLt(metrics.total_pnl, Zero)
               /\ RGt(loss_pct, tr.alert_thresholds.daily_loss_pct)
            THEN [tr EXCEPT !.daily_metrics.alerts_triggered =
                                Append(@, "daily_loss_exceeded")]
            ELSE tr
        total_executed == metrics.signals_executed_paper + metrics.signals_executed_manual
    IN  IF total_executed = 0
        THEN [tr |-> loss_alerted, raised |-> FALSE]
        ELSE IF \E k \in 1..Len(tr.signal_tracking) :
                    ~tr.signal_tracking[k].paper_result.present
        THEN [tr |-> loss_alerted, raised |-> TRUE]
        ELSE
        LET success_rate == Rat(TR_successful_trades(tr.signal_tracking), total_executed)
            rated == [loss_alerted EXCEPT !.daily_metrics.success_rate = success_rate]
        IN  IF ~tr.alert_thresholds.has_low_success_rate
            THEN [tr |-> rated, raised |-> TRUE]
            ELSE IF RLt(success_rate, tr.alert_thresholds.low_success_rate)
            THEN [tr |-> [rated EXCEPT !.daily_metrics.alerts_triggered =
                                           Append(@, "low_success_rate")],
                  raised |-> FALSE]
            ELSE [tr |-> rated, raised |-> FALSE]

\* track_signal up to self.signal_tracking.append(tracking_entry)
TR_append_entry(tr, signal, paper_result, manual_result) ==
    [tr EXCEPT !.signal_tracking =
                   Append(@, [signal_id |-> IF signal.signal_id = NoId
                                            THEN DefaultSignalId(Len(tr.signal_tracking))
                                            ELSE signal.signal_id,
                              symbol |-> signal.symbol,
                              paper_result |-> paper_result,
                              manual_result |-> manual_result])]

\* self.daily_metrics['signals_received'] += 1
TR_count_received(tr) ==
    [tr EXCEPT !.daily_metrics.signals_received = @ + 1]

\* if paper_result.get('executed'): signals_executed_paper += 1
TR_count_paper(tr, paper_result) ==
    IF paper_result.value.executed
    THEN [tr EXCEPT !.daily_metrics.signals_executed_paper = @ + 1]
    ELSE tr

\* if manual_result.get('user_executed'): signals_executed_manual += 1
TR_count_manual(tr, manual_result) ==
    IF manual_result.value.user_executed
    THEN [tr EXCEPT !.daily_metrics.signals_executed_manual = @ + 1]
    ELSE tr

\* self.daily_metrics['total_pnl'] += paper_pnl
TR_add_pnl(tr, paper_result) ==
    [tr EXCEPT !.daily_metrics.total_pnl = RAdd(@, TR_paper_pnl(paper_result))]

\* ExecutionPerformanceTracker.track_signal: [tr, raised].  Reading
\* daily_metrics['signals_received'] before start_daily_session raises
\* KeyError; execution_results.get('paper_result', {}) is None when the
\* result is None, and None.get raises AttributeError.
TR_track_signal(tr, signal, paper_result, manual_result) ==
    IF ~tr.daily_metrics.started
    THEN [tr |-> TR_append_entry(tr, signal, paper_result, manual_result),
          raised |-> TRUE]
    ELSE IF ~paper_result.present
    THEN [tr |-> TR_count_received(
                     TR_append_entry(tr, signal, paper_result, manual_result)),
          raised |-> TRUE]
    ELSE IF ~manual_result.present
    THEN [tr |-> TR_count_paper(
                     TR_count_received(
                         TR_append_entry(tr, signal, paper_result, manual_result)),
                     paper_result),
          raised |-> TRUE]
    ELSE TR_check_alerts(
             TR_add_pnl(
                 TR_count_manual(
                     TR_count_paper(
                         TR_count_received(
                             TR_append_entry(tr, signal, paper_result, manual_result)),
                         paper_result),
                     manual_result),
                 paper_result))

(***************************************************************************)
(* DailyTradingScheduler (bin/daily_trading_scheduler.py).                 *)
(*                                                                         *)
(* The scheduler owns a RiskManager rm, a PaperTrader pt, a                *)
(* ManualExecutionInterface mi and an ExecutionPerformanceTracker tr.  A   *)
(* cycle is computed over st: the four objects, the cycle_result, the      *)
(* locals paper_result and manual_result (present once assigned), and      *)
(* events, the calls the cycle has made: [op, i, ret] for the call op on   *)
(* the i-th signal of the cycle.  Post-market cleanup builds reports and   *)
(* changes none of these fields.                                           *)
(***************************************************************************)
\* DailyTradingScheduler._pre_market_setup
SC_pre_market_setup(w) ==
    [rm |-> RM_reset_daily_limits(w.rm),
     pt |-> PT_initialize_daily_session(w.pt),
     mi |-> w.mi,
     tr |-> TR_start_daily_session(w.tr)]

\* cycle_result["risk_violations"] += 1; continue
SC_count_violation(st, i) ==
    [st EXCEPT !.result.risk_violations = @ + 1,
               !.events = Append(@, [op |-> "risk_violation", i |-> i, ret |-> ""])]

\* paper_result = ...; if paper_result['executed']: paper_trades += 1, for
\* the dict p returned by execute_signal and the trader pt it left
SC_paper_executed(st, pt, p, i) ==
    [st EXCEPT
        !.pt = pt,
        !.paper_result = [present |-> TRUE, value |-> p],
        !.result.paper_trades = IF p.executed THEN @ + 1 ELSE @,
        !.events = Append(@, [op |-> "execute_signal", i |-> i,
                              ret |-> IF p.executed THEN "executed" ELSE "rejected"])]

\* if self.config['paper_trading']['enabled']: execute paper trade
SC_execute_paper(config, st, signal, i) ==
    IF config.paper_enabled
    THEN SC_paper_executed(st, PT_execute_signal(st.pt, signal).pt,
                           PT_execute_signal(st.pt, signal).ret, i)
    ELSE st

\* manual_result = ...; if manual_result['user_executed']: manual_trades += 1,
\* for the dict m returned by present_signal and the interface mi it left
SC_manual_presented(st, mi, m, i) ==
    [st EXCEPT
        !.mi = mi,
        !.manual_result = [present |-> TRUE, value |-> m],
        !.result.manual_trades = IF m.user_executed THEN @ + 1 ELSE @,
        !.events = Append(@, [op |-> "present_signal", i |-> i,
                              ret |-> IF m.user_executed THEN "executed" ELSE "declined"])]

\* if self.config['manual_trading']['enabled']: present for manual execution
SC_present_manual(config, st, signal, i) ==
    IF config.manual_enabled
    THEN SC_manual_presented(st, MI_present_signal(st.mi, signal).mi,
                             MI_present_signal(st.mi, signal).ret, i)
    ELSE st

\* The cycle after track_signal returned or raised (t): an exception ends
\* the cycle with an error.
SC_tracked(st, t, i) ==
    [st EXCEPT
        !.tr = t.tr,
        !.result.error = t.raised,
        !.events = Append(@, [op |-> "track_signal", i |-> i,
                              ret |-> IF t.raised THEN "raised" ELSE "None"])]

\* await self.performance_tracker.track_signal(signal, {...})
SC_track(st, signal, i) ==
    SC_tracked(st, TR_track_signal(st.tr, signal, st.paper_result, st.manual_result), i)

\* The rest of the loop body, for a signal that passed validation: paper
\* execution, manual presentation, performance tracking.
SC_forward(config, st, signal, i) ==
    SC_track(SC_present_manual(config, SC_execute_paper(config, st, signal, i),
                               signal, i),
             signal, i)

\* The cycle after validate_signal returned or raised (v).
SC_validated(st, v, i) ==
    [st EXCEPT
        !.rm = v.rm,
        !.events = Append(@, [op |-> "validate_signal", i |-> i, ret |-> v.ret])]

\* The loop body after validation with the continue left out: a rejected
\* signal is counted and executed all the same.
SC_after_validation_ungated(config, st, ret, signal, i) ==
    IF ret = "False"
    THEN SC_forward(config, SC_count_violation(st, i), signal, i)
    ELSE IF ret = "True"
    THEN SC_forward(config, st, signal, i)
    ELSE [st EXCEPT !.result.error = TRUE]

\* The loop body after validate_signal returned ret: the violation count and
\* continue, or the execution path.  An exception raised by validate_signal
\* ends the cycle with an error.
SC_after_validation(config, st, ret, signal, i) ==
    IF ret = "False"
    THEN SC_count_violation(st, i)
    ELSE IF ret = "True"
    THEN SC_forward(config, st, signal, i)
    ELSE [st EXCEPT !.result.error = TRUE]

\* The loop body of _run_trading_cycle for the i-th signal
SC_process_signal(config, st, signal, i) ==
    SC_after_validation(config,
                        SC_validated(st, RM_validate_signal(st.rm, signal), i),
                        RM_validate_signal(st.rm, signal).ret, signal, i)

\* for signal in signals, from the i-th on, until an exception
RECURSIVE SC_process_signals(_, _, _, _)
SC_process_signals(config, st, signals, i) ==
    IF i > Len(signals) \/ st.result.error
    THEN st
    ELSE SC_process_signals(config, SC_process_signal(config, st, signals[i], i),
                            signals, i + 1)

\* What paper_result and manual_result hold before their first assignment.
NoPaperResult == [present |-> FALSE, value |-> PT_rejected("")]

NoManualResult ==
    [present |-> FALSE,
     value |-> [signal_id |-> NoId, user_executed |-> FALSE,
                execution_price |-> None, execution_quantity |-> 0]]

\* DailyTradingScheduler._run_trading_cycle on the signals fetched
SC_run_trading_cycle(config, w, signals) ==
    SC_process_signals(config,
                       [rm |-> w.rm, pt |-> w.pt, mi |-> w.mi, tr |-> w.tr,
                        result |-> [signals_processed |-> Len(signals),
                                    paper_trades |-> 0,
                                    manual_trades |-> 0,
                                    risk_violations |-> 0,
                                    error |-> FALSE],
                        paper_result |-> NoPaperResult,
                        manual_result |-> NoManualResult,
                        events |-> << >>],
                       signals, 1)

(***************************************************************************)
(* LiveTradingController (execution/live_trading_controller.py) in DRY_RUN  *)
(* mode.  start_trading is one thread of control, whose position is pc; the *)
(* handler it installs for SIGINT and SIGTERM runs between any two of its   *)
(* steps.  invoked is the log of the calls of execute_strategy_signals,     *)
(* each with the cycle it belongs to and the value emergency_stop had when  *)
(* it was made.  The clock, the market hours, the outcome of initialize and *)
(* the risk violations the engine reports are inputs of the steps.          *)
(***************************************************************************)
\* LiveTradingController.__init__, with the symbols and the strategies of
\* the configuration
LV_init(symbols, strategies) ==
    [pc |-> "start_trading",
     config |-> [symbols |-> symbols, strategies |-> strategies],
     active_symbols |-> << >>,
     is_running |-> FALSE,
     emergency_stop |-> FALSE,
     circuit_breaker_triggered |-> FALSE,
     cycle |-> 0,
     symbol |-> 1,
     strategy |-> 1,
     invoked |-> << >>]

\* self.active_symbols[:3]
LV_cycle_symbols(lv) ==
    SubSeq(lv.active_symbols, 1, IF Len(lv.active_symbols) < 3 THEN Len(lv.active_symbols) ELSE 3)

\* start_trading up to its loop: initialize (which sets active_symbols when
\* it succeeds), is_running = True and the two signal handlers.
LV_start_trading(lv, initialized) ==
    IF ~initialized
    THEN [lv EXCEPT !.pc = "returned"]
    ELSE [lv EXCEPT !.active_symbols = lv.config.symbols,
                    !.is_running = TRUE,
                    !.pc = "while"]

\* signal_handler
LV_signal_handler(lv) == [lv EXCEPT !.emergency_stop = TRUE]

\* while self.is_running and datetime.now() < end_time:
\*     if self.emergency_stop: break
LV_while(lv, before_end_time) ==
    IF lv.is_running /\ before_end_time /\ ~lv.emergency_stop
    THEN [lv EXCEPT !.pc = "is_trading_hours", !.cycle = @ + 1]
    ELSE [lv EXCEPT !.pc = "shutdown"]

\* execute_trading_cycle: if not self.is_trading_hours(): return
LV_is_trading_hours(lv, trading_hours) ==
    IF trading_hours
    THEN [lv EXCEPT !.pc = "check_halt"]
    ELSE [lv EXCEPT !.pc = "sleep"]

\* execute_trading_cycle: if self.circuit_breaker_triggered or
\* self.emergency_stop: return
LV_check_halt(lv) ==
    IF lv.circuit_breaker_triggered \/ lv.emergency_stop
    THEN [lv EXCEPT !.pc = "sleep"]
    ELSE [lv EXCEPT !.pc = "check_risk_limits"]

\* check_risk_limits after which execute_trading_cycle goes on into the loop
\* with the circuit breaker triggered.
LV_check_risk_limits_no_return(lv, severe) ==
    IF LV_cycle_symbols(lv) = << >> \/ lv.config.strategies = << >>
    THEN [lv EXCEPT !.circuit_breaker_triggered = @ \/ severe,
                    !.pc = "update_performance_metrics"]
    ELSE [lv EXCEPT !.circuit_breaker_triggered = @ \/ severe,
                    !.pc = "execute_strategy_signals", !.symbol = 1, !.strategy = 1]

\* execute_trading_cycle: violations = self.check_risk_limits(); if
\* self.circuit_breaker_triggered: return; then the loop begins.  severe
\* says whether the engine reports daily_loss or max_drawdown.
LV_check_risk_limits(lv, severe) ==
    IF severe
    THEN [lv EXCEPT !.circuit_breaker_triggered = TRUE, !.pc = "sleep"]
    ELSE IF LV_cycle_symbols(lv) = << >> \/ lv.config.strategies = << >>
    THEN [lv EXCEPT !.pc = "update_performance_metrics"]
    ELSE [lv EXCEPT !.pc = "execute_strategy_signals", !.symbol = 1, !.strategy = 1]

\* The call of execute_strategy_signals the loop is about to make.
LV_next_call(lv) ==
    [cycle |-> lv.cycle,
     symbol |-> LV_cycle_symbols(lv)[lv.symbol],
     strategy_name |-> lv.config.strategies[lv.strategy],
     emergency_stop |-> lv.emergency_stop]

\* The place in the loop after the call: the next strategy, the next symbol,
\* or the end of the loop.
LV_advance(lv) ==
    IF lv.strategy < Len(lv.config.strategies)
    THEN [lv EXCEPT !.strategy = @ + 1]
    ELSE IF lv.symbol < Len(LV_cycle_symbols(lv))
    THEN [lv EXCEPT !.symbol = @ + 1, !.strategy = 1]
    ELSE [lv EXCEPT !.pc = "update_performance_metrics"]

\* One pass of a loop body that looks at emergency_stop before each call.
LV_execute_strategy_signals_checked(lv) ==
    IF lv.emergency_stop
    THEN [lv EXCEPT !.pc = "update_performance_metrics"]
    ELSE LV_advance([lv EXCEPT !.invoked = Append(@, LV_next_call(lv))])

\* One pass of the body of the symbol x strategy loop: the call (whose
\* exceptions the body catches) and the move to the next pair.
LV_execute_strategy_signals(lv) ==
    LV_advance([lv EXCEPT !.invoked = Append(@, LV_next_call(lv))])

\* execute_trading_cycle: self._update_performance_metrics(), and the return
\* to start_trading
LV_update_performance_metrics(lv) == [lv EXCEPT !.pc = "sleep"]

\* await asyncio.sleep(update_interval)
LV_sleep(lv) == [lv EXCEPT !.pc = "while"]

\* LiveTradingController.emergency_shutdown
LV_emergency_shutdown(lv) ==
    [lv EXCEPT !.emergency_stop = TRUE, !.circuit_breaker_triggered = TRUE]

\* LiveTradingController.shutdown
LV_shutdown(lv) == [lv EXCEPT !.is_running = FALSE, !.pc = "stopped"]

(***************************************************************************)
(* The state: one variable per object and one per object's last call.      *)
(* harness names the object a behaviour exercises, steps counts the calls  *)
(* made so far.                                                            *)
(***************************************************************************)
VARIABLES harness, steps, paper, paper_call, dry, dry_call, risk, risk_call,
          pf, pf_call, manual, tracker, sched, cycle_call, live, order_call

vars == <<harness, steps, paper, paper_call, dry, dry_call, risk, risk_call,
          pf, pf_call, manual, tracker, sched, cycle_call, live, order_call>>

\* The longest sequence of calls a behaviour makes on one object.
MaxSteps == 3

\* No call made yet.
NoCall == [op |-> "none"]

Signal(symbol, action, quantity, price, stop_loss) ==
    [symbol |-> symbol, action |-> action, quantity |-> quantity,
     price |-> price, stop_loss |-> stop_loss]

(***************************************************************************)
(* PaperTrader harness.                                                    *)
(***************************************************************************)
PaperPrices == {RInt(10), RInt(40)}

\* Structurally valid signals, and one signal failing each structural check.
PaperSignals ==
    {Signal("A", a, q, p, None) : a \in {"BUY", "SELL"}, q \in {1, 2}, p \in PaperPrices}
    \cup {Signal("B", a, 1, RInt(10), None) : a \in {"buy", "sell"}}
    \cup {Signal("", "BUY", 1, RInt(10), None),
          Signal("A", "HOLD", 1, RInt(10), None),
          Signal("A", "BUY", 0, RInt(10), None),
          Signal("A", "SELL", 1, Zero, None)}

\* The configurations a trader is constructed from: initial_capital,
\* slippage_bps, enabled.
PaperConfigs ==
    {<<RInt(c), b, TRUE>> : c \in {30, 100}, b \in {0, 100}} \cup {<<RInt(100), 100, FALSE>>}

IdlePaper == PT_init(Zero, 0, FALSE)

IdleDry == DR_init(Zero)

IdleRisk == RM_init(Zero, Zero, Zero, Zero, Zero)

IdlePf == PF_init(Zero, Zero, "equal_weight")

IdleManual == MI_init(Zero)

IdleTracker == TR_init(FALSE)

IdleSched == [paper_enabled |-> FALSE, manual_enabled |-> FALSE, phase |-> "constructed"]

IdleLive == LV_init(<< >>, << >>)

\* The scheduler's own objects, while a behaviour exercises another object.
IdleCycle ==
    /\ manual = IdleManual
    /\ tracker = IdleTracker
    /\ sched = IdleSched
    /\ cycle_call = NoCall
    /\ live = IdleLive
    /\ order_call = NoCall

\* The variables only the daily cycle, the live controller and the order
\* validation change.
cycle_vars == <<manual, tracker, sched, cycle_call, live, order_call>>

InitPaper ==
    /\ harness = "paper"
    /\ steps = 0
    /\ IdleCycle
    /\ \E c \in PaperConfigs : paper = PT_init(c[1], c[2], c[3])
    /\ paper_call = NoCall
    /\ dry = IdleDry /\ dry_call = NoCall
    /\ risk = IdleRisk /\ risk_call = NoCall
    /\ pf = IdlePf /\ pf_call = NoCall

PaperExecuteSignal ==
    /\ harness = "paper"
    /\ steps < MaxSteps
    /\ \E signal \in PaperSignals :
          LET r == PT_execute_signal(paper, signal)
          IN  /\ paper' = r.pt
              /\ paper_call' = [op |-> "execute_signal", signal |-> signal,
                                ret |-> r.ret, pre |-> paper]
    /\ steps' = steps + 1
    /\ UNCHANGED <<harness, dry, dry_call, risk, risk_call, pf, pf_call, cycle_vars>>

PaperInitializeDailySession ==
    /\ harness = "paper"
    /\ steps < MaxSteps
    /\ paper' = PT_initialize_daily_session(paper)
    /\ paper_call' = [op |-> "initialize_daily_session", signal |-> Signal("", "", 0, Zero, None),
                      ret |-> PT_rejected(""), pre |-> paper]
    /\ steps' = steps + 1
    /\ UNCHANGED <<harness, dry, dry_call, risk, risk_call, pf, pf_call, cycle_vars>>

NextPaper == PaperExecuteSignal \/ PaperInitializeDailySession

SpecPaper == InitPaper /\ [][NextPaper]_vars

(***************************************************************************)
(* DryRunTradingEngine harness.  Prices are multiples of 2,000,000, which  *)
(* makes every transaction cost a whole number.                            *)
(***************************************************************************)
DryCapitals == {RInt(100000000)}

\* What the market feed returns for a symbol: a price, or None.
DryFeed == {RInt(2000000), RInt(4000000), None}

DryLimitPrices == {RInt(200000000), None}

\* The arguments of place_simulated_order and the price the feed returns
\* during the call: MARKET orders at every feed value, LIMIT orders of one
\* share at every limit price.
DryOrders ==
    {[symbol |-> s, quantity |-> q, order_type |-> "MARKET", transaction_type |-> t,
      limit_price |-> None, current_price |-> c] :
        s \in Symbols, q \in {1, 2}, t \in {"BUY", "SELL"}, c \in DryFeed}
    \cup {[symbol |-> "A", quantity |-> 1, order_type |-> "LIMIT", transaction_type |-> t,
           limit_price |-> l, current_price |-> RInt(2000000)] :
        t \in {"BUY", "SELL"}, l \in DryLimitPrices}

InitDry ==
    /\ harness = "dry"
    /\ steps = 0
    /\ IdleCycle
    /\ \E c \in DryCapitals : dry = DR_init(c)
    /\ dry_call = NoCall
    /\ paper = IdlePaper /\ paper_call = NoCall
    /\ risk = IdleRisk /\ risk_call = NoCall
    /\ pf = IdlePf /\ pf_call = NoCall

DryPlaceSimulatedOrder ==
    /\ harness = "dry"
    /\ steps < MaxSteps
    /\ \E o \in DryOrders :
          LET r == DR_place_simulated_order(dry, o.symbol, o.quantity, o.order_type,
                                            o.transaction_type, o.limit_price,
                                            o.current_price)
          IN  /\ dry' = r.dr
              /\ dry_call' = [op |-> "place_simulated_order", order |-> o,
                              ret |-> r.ret, pre |-> dry]
    /\ steps' = steps + 1
    /\ UNCHANGED <<harness, paper, paper_call, risk, risk_call, pf, pf_call, cycle_vars>>

DryUpdatePositions ==
    /\ harness = "dry"
    /\ steps < MaxSteps
    /\ \E feed \in [Symbols -> DryFeed] :
          LET r == DR_update_positions(dry, feed)
          IN  /\ dry' = r.dr
              /\ dry_call' = [op |-> "update_positions", feed |-> feed,
                              ret |-> IF r.raised THEN "ZeroDivisionError" ELSE "None",
                              pre |-> dry]
    /\ steps' = steps + 1
    /\ UNCHANGED <<harness, paper, paper_call, risk, risk_call, pf, pf_call, cycle_vars>>

NextDry == DryPlaceSimulatedOrder \/ DryUpdatePositions

SpecDry == InitDry /\ [][NextDry]_vars

(***************************************************************************)
(* RiskManager harness: total_capital 1000 with the default percentages    *)
(* (position size 5, daily loss 3, stop loss 2, concentration 20).         *)
(***************************************************************************)
RiskConfig == RM_init(RInt(1000), RInt(5), RInt(3), RInt(2), RInt(20))

\* An accepted BUY and SELL, signals failing one or several checks, a BUY
\* whose stop-loss is at stop_loss_pct exactly and a SELL whose stop-loss is 0.
RiskSignals ==
    {Signal("A", "BUY", 1, RInt(10), Rat(99, 10)),
     Signal("A", "sell", 1, RInt(10), Rat(101, 10)),
     Signal("B", "BUY", 1, RInt(10), Rat(99, 10)),
     Signal("A", "BUY", 0, RInt(10), Rat(99, 10)),
     Signal("A", "BUY", 6, RInt(10), None),
     Signal("A", "BUY", 1, RInt(10), None),
     Signal("A", "BUY", 1, RInt(10), RInt(9)),
     Signal("A", "SELL", 1, RInt(10), RInt(11)),
     Signal("B", "BUY", 1, RInt(10), Rat(98, 10)),
     Signal("B", "SELL", 1, RInt(10), Zero)}

\* The arguments of update_position: symbol, action, quantity, price.
RiskPositionUpdates ==
    {<<"A", "BUY", 2, RInt(100)>>, <<"A", "SELL", 1, RInt(100)>>, <<"A", "sell", 3, RInt(100)>>}

RiskPnlChanges == {RInt(-31), RInt(-30), RInt(31)}

InitRisk ==
    /\ harness = "risk"
    /\ steps = 0
    /\ IdleCycle
    /\ risk = RiskConfig
    /\ risk_call = NoCall
    /\ paper = IdlePaper /\ paper_call = NoCall
    /\ dry = IdleDry /\ dry_call = NoCall
    /\ pf = IdlePf /\ pf_call = NoCall

\* A call on the risk manager: what it was given, what it returned, and the
\* manager before and after.
RiskCalled(op, signal, r) ==
    /\ risk' = r.rm
    /\ risk_call' = [op |-> op, signal |-> signal, ret |-> r.ret, pre |-> risk]
    /\ steps' = steps + 1
    /\ UNCHANGED <<harness, paper, paper_call, dry, dry_call, pf, pf_call, cycle_vars>>

NoSignal == Signal("", "", 0, Zero, None)

RiskResetDailyLimits ==
    /\ harness = "risk"
    /\ steps < MaxSteps + 1
    /\ RiskCalled("reset_daily_limits", NoSignal,
                  [rm |-> RM_reset_daily_limits(risk), ret |-> "None"])

RiskValidateSignal ==
    /\ harness = "risk"
    /\ steps < MaxSteps + 1
    /\ \E signal \in RiskSignals :
          RiskCalled("validate_signal", signal, RM_validate_signal(risk, signal))

RiskUpdatePosition ==
    /\ harness = "risk"
    /\ steps < MaxSteps + 1
    /\ \E u \in RiskPositionUpdates :
          RiskCalled("update_position", Signal(u[1], u[2], u[3], u[4], None),
                     [rm |-> RM_update_position(risk, u[1], u[2], u[3], u[4]),
                      ret |-> "None"])

RiskUpdatePnl ==
    /\ harness = "risk"
    /\ steps < MaxSteps + 1
    /\ \E c \in RiskPnlChanges :
          RiskCalled("update_pnl", Signal("", "", 0, c, None), RM_update_pnl(risk, c))

NextRisk == RiskResetDailyLimits \/ RiskValidateSignal \/ RiskUpdatePosition \/ RiskUpdatePnl

SpecRisk == InitRisk /\ [][NextRisk]_vars

(***************************************************************************)
(* RiskManager halt harness: long runs of a structurally invalid and an    *)
(* acceptable signal, which take the violation log past the halt count.    *)
(***************************************************************************)
\* How many violations beyond the halt count a behaviour may log.
MaxBeyondHalt == 2

HaltSignals ==
    {Signal("A", "BUY", 1, RInt(10), Rat(99, 10)),
     Signal("A", "BUY", 0, RInt(10), Rat(99, 10))}

InitHalt ==
    /\ harness = "halt"
    /\ steps = 0
    /\ IdleCycle
    /\ risk = RiskConfig
    /\ risk_call = NoCall
    /\ paper = IdlePaper /\ paper_call = NoCall
    /\ dry = IdleDry /\ dry_call = NoCall
    /\ pf = IdlePf /\ pf_call = NoCall

HaltResetDailyLimits ==
    /\ harness = "halt"
    /\ steps < MaxSteps
    /\ RiskCalled("reset_daily_limits", NoSignal,
                  [rm |-> RM_reset_daily_limits(risk), ret |-> "None"])

\* steps counts the resets and the accepted signals; the violation log
\* bounds the rejected ones.
HaltValidateSignal ==
    /\ harness = "halt"
    /\ \E signal \in HaltSignals :
          LET r == RM_validate_signal(risk, signal)
          IN  /\ Len(r.rm.risk_violations) <= RM_violation_halt_count + MaxBeyondHalt
              /\ r.ret # "False" => steps < MaxSteps
              /\ risk' = r.rm
              /\ risk_call' = [op |-> "validate_signal", signal |-> signal,
                               ret |-> r.ret, pre |-> risk]
              /\ steps' = IF r.ret = "False" THEN steps ELSE steps + 1
    /\ UNCHANGED <<harness, paper, paper_call, dry, dry_call, pf, pf_call, cycle_vars>>

NextHalt == HaltResetDailyLimits \/ HaltValidateSignal

SpecHalt == InitHalt /\ [][NextHalt]_vars

(***************************************************************************)
(* RiskManager concentration harness: total_capital 1,000,000 with the     *)
(* default percentages, so that max_position_size is 50,000, the daily     *)
(* loss limit 30,000 and the concentration limit 200,000.  The manager is  *)
(* taken as _pre_market_setup leaves it, constructed and then reset        *)
(* (bin/daily_trading_scheduler.py:173); the never-reset manager is the    *)
(* RiskManager harness's.                                                  *)
(***************************************************************************)
ConcentrationConfig == RM_init(RInt(1000000), RInt(5), RInt(3), RInt(2), RInt(20))

\* A BUY of 40,000 that passes alone, a BUY of 250,000, a SELL of 10,000, a
\* BUY of another instrument, and a BUY of 40,000 without a stop-loss.
ConcentrationSignals ==
    {Signal("A", "BUY", 400, RInt(100), RInt(99)),
     Signal("A", "BUY", 2500, RInt(100), RInt(99)),
     Signal("A", "SELL", 100, RInt(100), RInt(101)),
     Signal("B", "BUY", 400, RInt(100), RInt(99)),
     Signal("A", "BUY", 400, RInt(100), None)}

\* The arguments of update_position: symbol, action, quantity, price.
ConcentrationPositionUpdates ==
    {<<"A", "BUY", 2100, RInt(100)>>, <<"A", "BUY", 400, RInt(100)>>,
     <<"A", "SELL", 1000, RInt(100)>>}

ConcentrationPnlChanges == {RInt(-30001)}

InitConcentration ==
    /\ harness = "concentration"
    /\ steps = 0
    /\ IdleCycle
    /\ risk = RM_reset_daily_limits(ConcentrationConfig)
    /\ risk_call = NoCall
    /\ paper = IdlePaper /\ paper_call = NoCall
    /\ dry = IdleDry /\ dry_call = NoCall
    /\ pf = IdlePf /\ pf_call = NoCall

ConcentrationResetDailyLimits ==
    /\ harness = "concentration"
    /\ steps < MaxSteps + 1
    /\ RiskCalled("reset_daily_limits", NoSignal,
                  [rm |-> RM_reset_daily_limits(risk), ret |-> "None"])

ConcentrationValidateSignal ==
    /\ harness = "concentration"
    /\ steps < MaxSteps + 1
    /\ \E signal \in ConcentrationSignals :
          RiskCalled("validate_signal", signal, RM_validate_signal(risk, signal))

ConcentrationUpdatePosition ==
    /\ harness = "concentration"
    /\ steps < MaxSteps + 1
    /\ \E u \in ConcentrationPositionUpdates :
          RiskCalled("update_position", Signal(u[1], u[2], u[3], u[4], None),
                     [rm |-> RM_update_position(risk, u[1], u[2], u[3], u[4]),
                      ret |-> "None"])

ConcentrationUpdatePnl ==
    /\ harness = "concentration"
    /\ steps < MaxSteps + 1
    /\ \E c \in ConcentrationPnlChanges :
          RiskCalled("update_pnl", Signal("", "", 0, c, None), RM_update_pnl(risk, c))

NextConcentration ==
    \/ ConcentrationResetDailyLimits
    \/ ConcentrationValidateSignal
    \/ ConcentrationUpdatePosition
    \/ ConcentrationUpdatePnl

SpecConcentration == InitConcentration /\ [][NextConcentration]_vars

(***************************************************************************)
(* Portfolio harness.                                                      *)
(***************************************************************************)
\* initial_capital, commission_rate, position_size_method
PortfolioConfigs ==
    {<<RInt(1000), c, m>> : c \in {Zero, Rat(1, 4)}, m \in PositionSizeMethod}

\* The arguments of execute_trade.
PortfolioTrades ==
    {[ticker |-> "A", action |-> "BUY", price |-> RInt(10), confidence |-> c, volatility |-> v] :
        c \in {RInt(1), Rat(1, 2)}, v \in {Rat(2, 100), Zero}}
    \cup {[ticker |-> "A", action |-> a, price |-> RInt(1000), confidence |-> RInt(1),
           volatility |-> Rat(2, 100)] : a \in {"BUY", "SELL"}}
    \cup {[ticker |-> t, action |-> a, price |-> p, confidence |-> RInt(1),
           volatility |-> Rat(2, 100)] :
            t \in {"A", "B"}, a \in {"SELL", "HOLD"}, p \in {RInt(10)}}
    \cup {[ticker |-> "B", action |-> "BUY", price |-> p, confidence |-> RInt(1),
           volatility |-> Rat(2, 100)] : p \in {RInt(10), Zero}}

\* The price_data of update_position_prices: prices for some tickers.
PortfolioPriceData ==
    {[t \in {"A"} |-> RInt(1000)], [t \in {"A"} |-> RInt(10)],
     [t \in {"B"} |-> RInt(1000)], [t \in {} |-> Zero]}

InitPortfolio ==
    /\ harness = "portfolio"
    /\ steps = 0
    /\ IdleCycle
    /\ \E c \in PortfolioConfigs : pf = PF_init(c[1], c[2], c[3])
    /\ pf_call = NoCall
    /\ paper = IdlePaper /\ paper_call = NoCall
    /\ dry = IdleDry /\ dry_call = NoCall
    /\ risk = IdleRisk /\ risk_call = NoCall

PortfolioExecuteTrade ==
    /\ harness = "portfolio"
    /\ steps < MaxSteps
    /\ \E t \in PortfolioTrades :
          LET r == PF_execute_trade(pf, t.ticker, t.action, t.price, t.confidence,
                                    t.volatility)
          IN  /\ pf' = r.pf
              /\ pf_call' = [op |-> "execute_trade", trade |-> t, ret |-> r.ret, pre |-> pf]
    /\ steps' = steps + 1
    /\ UNCHANGED <<harness, paper, paper_call, dry, dry_call, risk, risk_call, cycle_vars>>

PortfolioUpdatePositionPrices ==
    /\ harness = "portfolio"
    /\ steps < MaxSteps
    /\ \E d \in PortfolioPriceData :
          /\ pf' = PF_update_position_prices(pf, d)
          /\ pf_call' = [op |-> "update_position_prices", price_data |-> d,
                         ret |-> "None", pre |-> pf]
    /\ steps' = steps + 1
    /\ UNCHANGED <<harness, paper, paper_call, dry, dry_call, risk, risk_call, cycle_vars>>

NextPortfolio == PortfolioExecuteTrade \/ PortfolioUpdatePositionPrices

SpecPortfolio == InitPortfolio /\ [][NextPortfolio]_vars

(***************************************************************************)
(* Position sizing harness: a Portfolio and its RiskManager, whose         *)
(* calculate_position_size is called on inputs of every sign and which     *)
(* buys at positive, zero and negative prices, and a DryRunTradingEngine   *)
(* that sizes positions.  pf_call and dry_call hold the call just made:    *)
(* a call on one object clears the record of the other.                    *)
(***************************************************************************)
\* The longest sequence of calls on the position sizing harness.
MaxSizingSteps == 2

\* max_position_size of the RiskManager and position_size_method of the
\* Portfolio.
SizingConfigs ==
    {<<c, m>> : c \in {Rat(1, 10), Rat(1, 4)}, m \in PositionSizeMethod}

\* The arguments of calculate_position_size beside the method, which is the
\* Portfolio's position_size_method.
SizingInputs ==
    {[portfolio_value |-> v, entry_price |-> p, volatility |-> s, confidence |-> c] :
        v \in {Zero, RInt(1000)},
        p \in {RInt(-10), Zero, RInt(10), RInt(30)},
        s \in {Rat(-1, 10), Zero, Rat(1, 2)},
        c \in {Zero, Rat(1, 2), RInt(1)}}

\* The arguments of execute_trade: a BUY at each price.
SizingTrades ==
    {[ticker |-> "A", action |-> "BUY", price |-> p, confidence |-> RInt(1),
      volatility |-> Rat(2, 100)] : p \in {RInt(-10), Zero, RInt(10), RInt(30)}}

\* What get_current_price returns and the confidence of the signal.
SizingDryInputs ==
    {[current_price |-> p, confidence |-> c] :
        p \in {None, Zero, RInt(30), RInt(7)}, c \in {Rat(7, 10), RInt(1), Rat(-1, 2)}}

InitSizing ==
    /\ harness = "sizing"
    /\ steps = 0
    /\ IdleCycle
    /\ \E c \in SizingConfigs :
          pf = [PF_init(RInt(1000), Zero, c[2]) EXCEPT
                   !.risk_manager.max_position_size = c[1]]
    /\ pf_call = NoCall
    /\ dry = DR_init(RInt(1000)) /\ dry_call = NoCall
    /\ paper = IdlePaper /\ paper_call = NoCall
    /\ risk = IdleRisk /\ risk_call = NoCall

SizingCalculatePositionSize ==
    /\ harness = "sizing"
    /\ steps < MaxSizingSteps
    /\ \E a \in SizingInputs :
          pf_call' = [op |-> "calculate_position_size", args |-> a,
                      ret |-> PM_calculate_position_size(pf.risk_manager,
                                  a.portfolio_value, a.entry_price, a.volatility,
                                  a.confidence, pf.position_size_method),
                      pre |-> pf]
    /\ dry_call' = NoCall
    /\ steps' = steps + 1
    /\ UNCHANGED <<harness, pf, paper, paper_call, dry, risk, risk_call, cycle_vars>>

SizingExecuteTrade ==
    /\ harness = "sizing"
    /\ steps < MaxSizingSteps
    /\ \E t \in SizingTrades :
          LET r == PF_execute_trade(pf, t.ticker, t.action, t.price, t.confidence,
                                    t.volatility)
          IN  /\ pf' = r.pf
              /\ pf_call' = [op |-> "execute_trade", trade |-> t, ret |-> r.ret, pre |-> pf]
    /\ dry_call' = NoCall
    /\ steps' = steps + 1
    /\ UNCHANGED <<harness, paper, paper_call, dry, risk, risk_call, cycle_vars>>

SizingDryCalculatePositionSize ==
    /\ harness = "sizing"
    /\ steps < MaxSizingSteps
    /\ \E a \in SizingDryInputs :
          dry_call' = [op |-> "_calculate_position_size", args |-> a,
                       ret |-> DR_calculate_position_size(dry, a.current_price,
                                                          a.confidence),
                       pre |-> dry]
    /\ pf_call' = NoCall
    /\ steps' = steps + 1
    /\ UNCHANGED <<harness, pf, paper, paper_call, dry, risk, risk_call, cycle_vars>>

NextSizing ==
    \/ SizingCalculatePositionSize
    \/ SizingExecuteTrade
    \/ SizingDryCalculatePositionSize

SpecSizing == InitSizing /\ [][NextSizing]_vars

(***************************************************************************)
(* Portfolio stop-loss and take-profit harness: positions of one share      *)
(* entered at 100 (or averaged with a fill at 200) and marked around the    *)
(* default thresholds, -5% and +15%.                                        *)
(***************************************************************************)
\* initial_capital, commission_rate, position_size_method
StopsConfigs == {<<RInt(1000), c, "equal_weight">> : c \in {Zero, Rat(1, 4)}}

\* The arguments of execute_trade.
StopsTrades ==
    {[ticker |-> t, action |-> "BUY", price |-> RInt(100), confidence |-> RInt(1),
      volatility |-> Rat(2, 100)] : t \in Symbols}
    \cup {[ticker |-> "A", action |-> "BUY", price |-> RInt(200), confidence |-> RInt(1),
           volatility |-> Rat(2, 100)]}

\* The current_prices of apply_risk_management: prices for some tickers.
StopsCurrentPrices ==
    {[t \in {"A"} |-> RInt(p)] : p \in {94, 95, 96, 114, 115}}
    \cup {[t \in {"B"} |-> RInt(95)], [t \in {} |-> Zero],
          [t \in Symbols |-> IF t = "A" THEN RInt(94) ELSE RInt(96)],
          [t \in Symbols |-> IF t = "A" THEN RInt(96) ELSE RInt(120)],
          [t \in Symbols |-> IF t = "A" THEN RInt(120) ELSE RInt(90)]}

InitStops ==
    /\ harness = "stops"
    /\ steps = 0
    /\ IdleCycle
    /\ \E c \in StopsConfigs : pf = PF_init(c[1], c[2], c[3])
    /\ pf_call = NoCall
    /\ paper = IdlePaper /\ paper_call = NoCall
    /\ dry = IdleDry /\ dry_call = NoCall
    /\ risk = IdleRisk /\ risk_call = NoCall

StopsExecuteTrade ==
    /\ harness = "stops"
    /\ steps < MaxSteps
    /\ \E t \in StopsTrades :
          LET r == PF_execute_trade(pf, t.ticker, t.action, t.price, t.confidence,
                                    t.volatility)
          IN  /\ pf' = r.pf
              /\ pf_call' = [op |-> "execute_trade", trade |-> t, ret |-> r.ret, pre |-> pf]
    /\ steps' = steps + 1
    /\ UNCHANGED <<harness, paper, paper_call, dry, dry_call, risk, risk_call, cycle_vars>>

StopsApplyRiskManagement ==
    /\ harness = "stops"
    /\ steps < MaxSteps
    /\ \E d \in StopsCurrentPrices :
          LET r == PF_apply_risk_management(pf, d)
          IN  /\ pf' = r.pf
              /\ pf_call' = [op |-> "apply_risk_management", current_prices |-> d,
                             ret |-> r.ret, pre |-> pf]
    /\ steps' = steps + 1
    /\ UNCHANGED <<harness, paper, paper_call, dry, dry_call, risk, risk_call, cycle_vars>>

\* A day of run_portfolio_backtest without signals.
StopsBacktestDay ==
    /\ harness = "stops"
    /\ steps < MaxSteps
    /\ \E d \in StopsCurrentPrices :
          LET r == PF_backtest_day(pf, d)
          IN  /\ pf' = r.pf
              /\ pf_call' = [op |-> "backtest_day", current_prices |-> d,
                             ret |-> r.ret, pre |-> pf]
    /\ steps' = steps + 1
    /\ UNCHANGED <<harness, paper, paper_call, dry, dry_call, risk, risk_call, cycle_vars>>

NextStops == StopsExecuteTrade \/ StopsApplyRiskManagement \/ StopsBacktestDay

SpecStops == InitStops /\ [][NextStops]_vars

(***************************************************************************)
(* Daily cycle harness: a scheduler with paper and manual trading enabled  *)
(* or not and an alert configuration with or without low_success_rate,     *)
(* whose days start with the pre-market setup and run trading cycles on    *)
(* lists of signals.                                                       *)
(***************************************************************************)
\* The most signals one cycle fetches.
MaxCycleSignals == 2

CycleSignal(symbol, action, quantity, price, stop_loss, signal_id, strength, estimated_value) ==
    [symbol |-> symbol, action |-> action, quantity |-> quantity, price |-> price,
     stop_loss |-> stop_loss, signal_id |-> signal_id, strength |-> strength,
     estimated_value |-> estimated_value]

\* Two signals the risk manager accepts and the user executes or declines,
\* one it accepts that is above the manual order limit, and two it rejects.
CycleSignals ==
    {CycleSignal("A", "BUY", 1, RInt(10), Rat(99, 10), [text |-> "S1", n |-> -1],
                 Rat(8, 10), RInt(10)),
     CycleSignal("A", "SELL", 1, RInt(10), Rat(101, 10), NoId, None, None),
     CycleSignal("B", "buy", 4, RInt(10), Rat(99, 10), NoId, Rat(9, 10), RInt(60000)),
     CycleSignal("A", "BUY", 0, RInt(10), Rat(99, 10), NoId, Rat(9, 10), RInt(10)),
     CycleSignal("A", "BUY", 6, RInt(10), None, [text |-> "S1", n |-> -1],
                 Rat(9, 10), RInt(60))}

RECURSIVE SeqsUpTo(_, _)
SeqsUpTo(S, n) ==
    IF n = 0
    THEN {<< >>}
    ELSE LET shorter == SeqsUpTo(S, n - 1)
         IN  shorter \cup {Append(q, x) : q \in shorter, x \in S}

\* What a cycle on these signals adds to steps.
CycleCost(signals) == IF signals = << >> THEN 1 ELSE Len(signals)

\* paper_trading.enabled, manual_trading.enabled, and whether
\* performance.alert_thresholds has low_success_rate
CycleConfigs ==
    {[paper_enabled |-> p, manual_enabled |-> m, has_low_success_rate |-> l] :
        p \in BOOLEAN, m \in BOOLEAN, l \in BOOLEAN}

\* risk_management of the configuration: the defaults on a total_capital of
\* 1000, and a book of 100 (the paper trader's capital) with 15 percent for
\* the position size and the concentration.
CycleRiskConfigs ==
    {RiskConfig, RM_init(RInt(100), RInt(15), RInt(3), RInt(2), RInt(15))}

InitCycle ==
    /\ harness = "cycle"
    /\ steps = 0
    /\ \E c \in CycleConfigs :
          /\ sched = [paper_enabled |-> c.paper_enabled,
                      manual_enabled |-> c.manual_enabled,
                      phase |-> "constructed"]
          /\ paper = PT_init(RInt(100), 0, c.paper_enabled)
          /\ tracker = TR_init(c.has_low_success_rate)
    /\ risk \in CycleRiskConfigs
    /\ manual = MI_init(RInt(50000))
    /\ cycle_call = NoCall
    /\ live = IdleLive
    /\ order_call = NoCall
    /\ paper_call = NoCall /\ risk_call = NoCall
    /\ dry = IdleDry /\ dry_call = NoCall
    /\ pf = IdlePf /\ pf_call = NoCall

\* run_daily_trading_cycle up to its trading loop
CyclePreMarketSetup ==
    /\ harness = "cycle"
    /\ steps < MaxSteps + 1
    /\ LET w == SC_pre_market_setup([rm |-> risk, pt |-> paper, mi |-> manual,
                                     tr |-> tracker])
       IN  /\ risk' = w.rm
           /\ paper' = w.pt
           /\ manual' = w.mi
           /\ tracker' = w.tr
    /\ sched' = [sched EXCEPT !.phase = "open"]
    /\ cycle_call' = [op |-> "_pre_market_setup"]
    /\ steps' = steps + 1
    /\ UNCHANGED <<harness, paper_call, dry, dry_call, risk_call, pf, pf_call, live,
                   order_call>>

\* One pass of the trading loop of run_daily_trading_cycle.  steps counts
\* the setups, the signals fetched and the cycles that fetched none.
CycleRunTradingCycle ==
    /\ harness = "cycle"
    /\ sched.phase = "open"
    /\ \E signals \in SeqsUpTo(CycleSignals, MaxCycleSignals) :
          /\ steps + CycleCost(signals) <= MaxSteps + 1
          /\ steps' = steps + CycleCost(signals)
          /\ \E st \in {SC_run_trading_cycle(sched, [rm |-> risk, pt |-> paper,
                                                  mi |-> manual, tr |-> tracker],
                                          signals)} :
              /\ risk' = st.rm
              /\ paper' = st.pt
              /\ manual' = st.mi
              /\ tracker' = st.tr
              /\ cycle_call' = [op |-> "_run_trading_cycle",
                                signals |-> signals,
                                result |-> st.result,
                                events |-> st.events,
                                pre |-> [rm |-> risk, pt |-> paper, mi |-> manual,
                                         tr |-> tracker]]
    /\ UNCHANGED <<harness, sched, paper_call, dry, dry_call, risk_call, pf, pf_call,
                   live, order_call>>

NextCycle == CyclePreMarketSetup \/ CycleRunTradingCycle

SpecCycle == InitCycle /\ [][NextCycle]_vars

(***************************************************************************)
(* LiveTradingController harness: start_trading on one, two or five        *)
(* symbols and one or two strategies, with a shutdown signal that may       *)
(* arrive between any two steps once the handlers are installed.            *)
(***************************************************************************)
\* The trading cycles a behaviour starts.
MaxLiveCycles == 2

LiveSymbols == {<<"A">>, <<"A", "B">>, <<"A", "B", "C", "D", "E">>}

LiveStrategies == {<<"adaptive_rsi">>, <<"adaptive_rsi", "momentum">>}

InitLive ==
    /\ harness = "live"
    /\ steps = 0
    /\ manual = IdleManual
    /\ tracker = IdleTracker
    /\ sched = IdleSched
    /\ cycle_call = NoCall
    /\ order_call = NoCall
    /\ \E symbols \in LiveSymbols, strategies \in LiveStrategies :
          live = LV_init(symbols, strategies)
    /\ paper = IdlePaper /\ paper_call = NoCall
    /\ dry = IdleDry /\ dry_call = NoCall
    /\ risk = IdleRisk /\ risk_call = NoCall
    /\ pf = IdlePf /\ pf_call = NoCall

\* The variables the live controller leaves alone.
live_frame == <<harness, steps, paper, paper_call, dry, dry_call, risk, risk_call,
                pf, pf_call, manual, tracker, sched, cycle_call, order_call>>

LiveStartTrading ==
    /\ harness = "live"
    /\ live.pc = "start_trading"
    /\ \E initialized \in BOOLEAN : live' = LV_start_trading(live, initialized)
    /\ UNCHANGED live_frame

\* SIGINT or SIGTERM arrives while the handlers are installed.
LiveSignalHandler ==
    /\ harness = "live"
    /\ live.pc \notin {"start_trading", "returned", "stopped"}
    /\ ~live.emergency_stop
    /\ live' = LV_signal_handler(live)
    /\ UNCHANGED live_frame

LiveWhile ==
    /\ harness = "live"
    /\ live.pc = "while"
    /\ \E before_end_time \in BOOLEAN :
          /\ LV_while(live, before_end_time).cycle <= MaxLiveCycles
          /\ live' = LV_while(live, before_end_time)
    /\ UNCHANGED live_frame

LiveIsTradingHours ==
    /\ harness = "live"
    /\ live.pc = "is_trading_hours"
    /\ \E trading_hours \in BOOLEAN : live' = LV_is_trading_hours(live, trading_hours)
    /\ UNCHANGED live_frame

LiveCheckHalt ==
    /\ harness = "live"
    /\ live.pc = "check_halt"
    /\ live' = LV_check_halt(live)
    /\ UNCHANGED live_frame

LiveCheckRiskLimits ==
    /\ harness = "live"
    /\ live.pc = "check_risk_limits"
    /\ \E severe \in BOOLEAN : live' = LV_check_risk_limits(live, severe)
    /\ UNCHANGED live_frame

LiveExecuteStrategySignals ==
    /\ harness = "live"
    /\ live.pc = "execute_strategy_signals"
    /\ live' = LV_execute_strategy_signals(live)
    /\ UNCHANGED live_frame

LiveUpdatePerformanceMetrics ==
    /\ harness = "live"
    /\ live.pc = "update_performance_metrics"
    /\ live' = LV_update_performance_metrics(live)
    /\ UNCHANGED live_frame

LiveSleep ==
    /\ harness = "live"
    /\ live.pc = "sleep"
    /\ live' = LV_sleep(live)
    /\ UNCHANGED live_frame

LiveShutdown ==
    /\ harness = "live"
    /\ live.pc = "shutdown"
    /\ live' = LV_shutdown(live)
    /\ UNCHANGED live_frame

\* emergency_shutdown is called on the controller before start_trading or
\* while start_trading waits in asyncio.sleep: start_trading is a coroutine
\* and execute_trading_cycle awaits nothing, so no other caller runs inside
\* a cycle.
LiveEmergencyShutdown ==
    /\ harness = "live"
    /\ live.pc \in {"start_trading", "sleep"}
    /\ ~live.circuit_breaker_triggered
    /\ live' = LV_emergency_shutdown(live)
    /\ UNCHANGED live_frame

NextLive ==
    \/ LiveStartTrading
    \/ LiveSignalHandler
    \/ LiveWhile
    \/ LiveIsTradingHours
    \/ LiveCheckHalt
    \/ LiveCheckRiskLimits
    \/ LiveExecuteStrategySignals
    \/ LiveUpdatePerformanceMetrics
    \/ LiveSleep
    \/ LiveShutdown
    \/ LiveEmergencyShutdown

SpecLive == InitLive /\ [][NextLive]_vars

(***************************************************************************)
(* Configuration harness: a RiskManager (risk/manager.py) built from a      *)
(* configuration with one threshold at 0 or below, or with the defaults,    *)
(* and a Portfolio built with one of the four sizing methods or with a      *)
(* value that is none of them.                                              *)
(***************************************************************************)
\* max_position_size_pct, max_daily_loss_pct, stop_loss_pct,
\* max_concentration_pct
ConfigThresholds ==
    {<<RInt(5), RInt(3), RInt(2), RInt(20)>>}
    \cup {<<x, RInt(3), RInt(2), RInt(20)>> : x \in {Zero, RInt(-1)}}
    \cup {<<RInt(5), x, RInt(2), RInt(20)>> : x \in {Zero, RInt(-1)}}
    \cup {<<RInt(5), RInt(3), x, RInt(20)>> : x \in {Zero, RInt(-1)}}
    \cup {<<RInt(5), RInt(3), RInt(2), x>> : x \in {Zero, RInt(-1)}}

\* position_size_method of Portfolio.__init__
ConfigSizeMethods == PositionSizeMethod \cup {"unknown"}

ConfigSignals ==
    {Signal("A", "BUY", 1, RInt(10), Rat(99, 10)),
     Signal("A", "BUY", 1, RInt(10), RInt(10)),
     Signal("A", "SELL", 1, RInt(10), Rat(101, 10))}

\* portfolio_value, entry_price, volatility, confidence
ConfigSizingInputs ==
    {[portfolio_value |-> RInt(1000), entry_price |-> RInt(10),
      volatility |-> Rat(2, 100), confidence |-> c] : c \in {RInt(1), Rat(1, 2)}}

InitConfig ==
    /\ harness = "config"
    /\ steps = 0
    /\ IdleCycle
    /\ \E t \in ConfigThresholds : risk = RM_init(RInt(1000), t[1], t[2], t[3], t[4])
    /\ risk_call = NoCall
    /\ \E m \in ConfigSizeMethods : pf = PF_init(RInt(1000), Zero, m)
    /\ pf_call = NoCall
    /\ paper = IdlePaper /\ paper_call = NoCall
    /\ dry = IdleDry /\ dry_call = NoCall

ConfigResetDailyLimits ==
    /\ harness = "config"
    /\ steps < MaxSteps
    /\ risk' = RM_reset_daily_limits(risk)
    /\ risk_call' = [op |-> "reset_daily_limits", signal |-> NoSignal, ret |-> "None",
                     pre |-> risk]
    /\ steps' = steps + 1
    /\ UNCHANGED <<harness, paper, paper_call, dry, dry_call, pf, pf_call, cycle_vars>>

ConfigValidateSignal ==
    /\ harness = "config"
    /\ steps < MaxSteps
    /\ \E signal \in ConfigSignals :
          /\ risk' = RM_validate_signal(risk, signal).rm
          /\ risk_call' = [op |-> "validate_signal", signal |-> signal,
                           ret |-> RM_validate_signal(risk, signal).ret, pre |-> risk]
    /\ steps' = steps + 1
    /\ UNCHANGED <<harness, paper, paper_call, dry, dry_call, pf, pf_call, cycle_vars>>

ConfigCalculatePositionSize ==
    /\ harness = "config"
    /\ steps < MaxSteps
    /\ \E a \in ConfigSizingInputs :
          pf_call' = [op |-> "calculate_position_size", args |-> a,
                      ret |-> PM_calculate_position_size(pf.risk_manager,
                                  a.portfolio_value, a.entry_price, a.volatility,
                                  a.confidence, pf.position_size_method),
                      pre |-> pf]
    /\ steps' = steps + 1
    /\ UNCHANGED <<harness, pf, paper, paper_call, dry, dry_call, risk, risk_call,
                   cycle_vars>>

NextConfig ==
    ConfigResetDailyLimits \/ ConfigValidateSignal \/ ConfigCalculatePositionSize

SpecConfig == InitConfig /\ [][NextConfig]_vars

(***************************************************************************)
(* Performance metrics harness: a portfolio that trades one ticker between *)
(* the days of a backtest and is asked for its metrics.                    *)
(***************************************************************************)
\* The most trades and days of one backtest.
MaxMetricsSteps == 6

\* The arguments of execute_trade.
MetricsTrades ==
    {[ticker |-> "A", action |-> "BUY", price |-> RInt(p), confidence |-> RInt(1),
      volatility |-> Rat(2, 100)] : p \in {100, 120}}
    \cup {[ticker |-> "A", action |-> "SELL", price |-> RInt(110), confidence |-> RInt(1),
           volatility |-> Rat(2, 100)]}

\* The current_prices of a day.
MetricsCurrentPrices == {[t \in {"A"} |-> RInt(110)], [t \in {} |-> Zero]}

InitMetrics ==
    /\ harness = "metrics"
    /\ steps = 0
    /\ IdleCycle
    /\ pf = PF_init(RInt(1000), Zero, "equal_weight")
    /\ pf_call = NoCall
    /\ paper = IdlePaper /\ paper_call = NoCall
    /\ dry = IdleDry /\ dry_call = NoCall
    /\ risk = IdleRisk /\ risk_call = NoCall

MetricsExecuteTrade ==
    /\ harness = "metrics"
    /\ steps < MaxMetricsSteps
    /\ \E t \in MetricsTrades :
          LET r == PF_execute_trade(pf, t.ticker, t.action, t.price, t.confidence,
                                    t.volatility)
          IN  /\ pf' = r.pf
              /\ pf_call' = [op |-> "execute_trade", trade |-> t, ret |-> r.ret, pre |-> pf]
    /\ steps' = steps + 1
    /\ UNCHANGED <<harness, paper, paper_call, dry, dry_call, risk, risk_call, cycle_vars>>

\* The end of a day of run_portfolio_backtest.
MetricsBacktestDay ==
    /\ harness = "metrics"
    /\ steps < MaxMetricsSteps
    /\ \E d \in MetricsCurrentPrices :
          LET r == PF_backtest_day(pf, d)
          IN  /\ pf' = r.pf
              /\ pf_call' = [op |-> "backtest_day", current_prices |-> d,
                             ret |-> r.ret, pre |-> pf]
    /\ steps' = steps + 1
    /\ UNCHANGED <<harness, paper, paper_call, dry, dry_call, risk, risk_call, cycle_vars>>

\* get_performance_metrics reads the portfolio and writes nothing.
MetricsGetPerformanceMetrics ==
    /\ harness = "metrics"
    /\ pf_call' = [op |-> "get_performance_metrics",
                   ret |-> PF_get_performance_metrics(pf), pre |-> pf]
    /\ UNCHANGED <<harness, steps, pf, paper, paper_call, dry, dry_call, risk, risk_call,
                   cycle_vars>>

NextMetrics == MetricsExecuteTrade \/ MetricsBacktestDay \/ MetricsGetPerformanceMetrics

SpecMetrics == InitMetrics /\ [][NextMetrics]_vars

(***************************************************************************)
(* Order validation harness: validate_order on order dicts whose fields    *)
(* are absent, empty, valid, or of the wrong kind.                         *)
(***************************************************************************)
ValidationSymbols == {Absent, Str("", 0), Str("AAPL", 4), Str("AAAAAAAAAAAAAAAAAAAAA", 21), Num(5)}
ValidationQuantities == {Absent, Num(0), Num(-5), Num(100), Num(20000), Str("100", 3)}
ValidationDirections == {Absent, Str("", 0), Str("BUY", 3), Str("SELL", 4), Str("INVALID", 7)}
ValidationOrderTypes ==
    {Absent, Str("MARKET", 6), Str("LIMIT", 5), Str("STOP", 4), Str("STOP_LIMIT", 10),
     Str("ICEBERG", 7)}
ValidationPrices == {Absent, Num(150), Num(0)}
ValidationTimesInForce == {Absent, Str("DAY", 3), Str("WEEK", 4)}

\* The order dicts.
ValidationOrders ==
    [symbol : ValidationSymbols, quantity : ValidationQuantities,
     direction : ValidationDirections, order_type : ValidationOrderTypes,
     limit_price : ValidationPrices, stop_price : ValidationPrices,
     time_in_force : ValidationTimesInForce]

\* An order dict that validate_order has not been called on yet.
InitValidation ==
    /\ harness = "validation"
    /\ steps = 0
    /\ manual = IdleManual
    /\ tracker = IdleTracker
    /\ sched = IdleSched
    /\ cycle_call = NoCall
    /\ live = IdleLive
    /\ \E order \in ValidationOrders : order_call = [op |-> "order", order |-> order]
    /\ pf = IdlePf /\ pf_call = NoCall
    /\ paper = IdlePaper /\ paper_call = NoCall
    /\ dry = IdleDry /\ dry_call = NoCall
    /\ risk = IdleRisk /\ risk_call = NoCall

\* validate_order reads its argument and writes nothing.
ValidationValidateOrder ==
    /\ harness = "validation"
    /\ order_call.op = "order"
    /\ order_call' = [op |-> "validate_order", order |-> order_call.order,
                      ret |-> validate_order(order_call.order)]
    /\ UNCHANGED <<harness, steps, paper, paper_call, dry, dry_call, risk, risk_call,
                   pf, pf_call, manual, tracker, sched, cycle_call, live>>

NextValidation == ValidationValidateOrder

SpecValidation == InitValidation /\ [][NextValidation]_vars

(***************************************************************************)
(* Manual execution harness: an interface that is presented signals with   *)
(* and without a signal_id, which the simulated user executes or declines, *)
(* and is told of executions by mark_signal_executed.                      *)
(***************************************************************************)
\* The most calls on one interface.
MaxManualSteps == 4

\* Signals the user declines (strength 0.5) and executes (strength 0.9),
\* without a signal_id and with the id "S1".
ManualSignals ==
    {CycleSignal("A", "BUY", 1, RInt(10), None, id, strength, RInt(10)) :
        id \in {NoId, [text |-> "S1", n |-> -1]}, strength \in {Rat(1, 2), Rat(9, 10)}}

\* The signal ids mark_signal_executed is called with.
ManualSignalIds ==
    {DefaultSignalId(0), DefaultSignalId(1), [text |-> "S1", n |-> -1],
     [text |-> "S9", n |-> -1]}

\* The execution_details of mark_signal_executed.
ManualExecutionDetails == [execution_price |-> RInt(10), execution_quantity |-> 1]

InitManual ==
    /\ harness = "manual"
    /\ steps = 0
    /\ manual = MI_init(RInt(50000))
    /\ cycle_call = NoCall
    /\ tracker = IdleTracker
    /\ sched = IdleSched
    /\ live = IdleLive
    /\ order_call = NoCall
    /\ paper = IdlePaper /\ paper_call = NoCall
    /\ dry = IdleDry /\ dry_call = NoCall
    /\ risk = IdleRisk /\ risk_call = NoCall
    /\ pf = IdlePf /\ pf_call = NoCall

\* The variables the manual interface leaves alone.
manual_frame == <<harness, paper, paper_call, dry, dry_call, risk, risk_call, pf, pf_call,
                  tracker, sched, live, order_call>>

ManualPresentSignal ==
    /\ harness = "manual"
    /\ steps < MaxManualSteps
    /\ \E signal \in ManualSignals :
          LET r == MI_present_signal(manual, signal)
          IN  /\ manual' = r.mi
              /\ cycle_call' = [op |-> "present_signal", signal |-> signal,
                                ret |-> r.ret, pre |-> manual]
    /\ steps' = steps + 1
    /\ UNCHANGED manual_frame

ManualMarkSignalExecuted ==
    /\ harness = "manual"
    /\ steps < MaxManualSteps
    /\ \E signal_id \in ManualSignalIds :
          LET r == MI_mark_signal_executed(manual, signal_id, ManualExecutionDetails)
          IN  /\ manual' = r.mi
              /\ cycle_call' = [op |-> "mark_signal_executed", signal_id |-> signal_id,
                                ret |-> r.ret, pre |-> manual]
    /\ steps' = steps + 1
    /\ UNCHANGED manual_frame

NextManual == ManualPresentSignal \/ ManualMarkSignalExecuted

SpecManual == InitManual /\ [][NextManual]_vars

(***************************************************************************)
(* The execution objects side by side: a behaviour exercises one of them.  *)
(***************************************************************************)
Init == InitPaper \/ InitDry \/ InitRisk \/ InitPortfolio

Next == NextPaper \/ NextDry \/ NextRisk \/ NextPortfolio

Spec == Init /\ [][Next]_vars

(***************************************************************************)
(* Properties.                                                             *)
(***************************************************************************)
\* The quantity of symbol a PaperTrader holds.
PaperHeld(pt, symbol) ==
    IF symbol \in DOMAIN pt.portfolio THEN pt.portfolio[symbol].quantity ELSE 0

\* C1: after every place_simulated_order and update_positions of the
\* DryRunTradingEngine, total_value equals available_cash plus the sum over
\* the open positions of quantity * current_price.
C1_CapitalConservation ==
    (harness = "dry" /\ dry_call.op \in {"place_simulated_order", "update_positions"})
        => dry.total_value = RAdd(dry.available_cash, DR_position_value(dry.positions))

\* C2: the available_capital of a PaperTrader constructed with a non-negative
\* initial capital is never negative.
C2_CapitalNeverNegative ==
    harness = "paper" => RGe(paper.available_capital, Zero)

\* C3: every position quantity held by the PaperTrader, the
\* DryRunTradingEngine and the RiskManager is non-negative, whatever
\* sequence of positive-quantity operations has been applied.
C3_QuantitiesNonNegative ==
    /\ \A s \in DOMAIN paper.portfolio : paper.portfolio[s].quantity >= 0
    /\ \A s \in DOMAIN dry.positions : dry.positions[s].quantity >= 0
    /\ \A s \in DOMAIN risk.current_positions : risk.current_positions[s].quantity >= 0

\* C3 witness: the RiskManager was told of a SELL of more than it held, and
\* holds nothing of the symbol.
C3_Witness ==
    /\ risk_call.op = "update_position"
    /\ Upper(risk_call.signal.action) = "SELL"
    /\ risk_call.signal.symbol \in DOMAIN risk_call.pre.current_positions
    /\ risk_call.signal.quantity >
           risk_call.pre.current_positions[risk_call.signal.symbol].quantity
    /\ risk.current_positions[risk_call.signal.symbol].quantity = 0

\* C4: a PaperTrader SELL of more than the held quantity of its symbol (a
\* symbol never bought included) is rejected: executed is False, and the
\* capital, the portfolio and the trade history are what they were.
C4_OversellRejected ==
    (/\ paper_call.op = "execute_signal"
     /\ paper_call.pre.enabled
     /\ SignalStructurallyValid(paper_call.signal)
     /\ Upper(paper_call.signal.action) = "SELL"
     /\ paper_call.signal.quantity > PaperHeld(paper_call.pre, paper_call.signal.symbol))
        => /\ paper_call.ret.executed = FALSE
           /\ paper.available_capital = paper_call.pre.available_capital
           /\ paper.portfolio = paper_call.pre.portfolio
           /\ paper.trades = paper_call.pre.trades

\* What a PaperTrader BUY of the signal costs: execution price * quantity
\* plus the commission.
PaperBuyCost(pt, signal) ==
    RAdd(RMul(RMul(signal.price, RAdd(RInt(1), Rat(pt.slippage_bps, 10000))),
              RInt(signal.quantity)),
         pt.commission_per_trade)

\* What a DryRunTradingEngine order costs: quantity * execution price plus
\* the transaction cost.
DryOrderCost(order) ==
    LET execution_price == IF order.order_type = "LIMIT"
                           THEN order.limit_price
                           ELSE order.current_price
        order_value == RMul(RInt(order.quantity), execution_price)
    IN  RAdd(order_value,
             DR_calculate_transaction_cost(order_value, order.transaction_type))

\* C5: a PaperTrader BUY is answered executed = False with reason
\* "Insufficient capital" exactly when execution price * quantity +
\* commission exceeds available_capital; the DryRunTradingEngine refuses a
\* BUY whenever order_value + transaction_cost exceeds available_cash.
C5_InsufficientFunds ==
    /\ (/\ paper_call.op = "execute_signal"
        /\ paper_call.pre.enabled
        /\ SignalStructurallyValid(paper_call.signal)
        /\ Upper(paper_call.signal.action) = "BUY")
           => ((/\ paper_call.ret.executed = FALSE
                /\ paper_call.ret.reason = "Insufficient capital")
               <=> RGt(PaperBuyCost(paper_call.pre, paper_call.signal),
                       paper_call.pre.available_capital))
    /\ (/\ dry_call.op = "place_simulated_order"
        /\ dry_call.order.transaction_type = "BUY"
        /\ dry_call.order.current_price \notin {None, Zero}
        /\ dry_call.order.order_type = "LIMIT" => dry_call.order.limit_price # None
        /\ RGt(DryOrderCost(dry_call.order), dry_call.pre.available_cash))
           => dry_call.ret = "None"

\* C5 witness: a PaperTrader BUY costing more than the capital left was
\* answered, and that capital would have paid for the shares without the
\* commission.
C5_Witness ==
    /\ paper_call.op = "execute_signal"
    /\ paper_call.pre.enabled
    /\ SignalStructurallyValid(paper_call.signal)
    /\ Upper(paper_call.signal.action) = "BUY"
    /\ RGt(PaperBuyCost(paper_call.pre, paper_call.signal),
           paper_call.pre.available_capital)
    /\ RLe(RMul(paper_call.signal.price, RInt(paper_call.signal.quantity)),
           paper_call.pre.available_capital)
    /\ paper_call.ret.reason = "Insufficient capital"

\* C6: a rejected operation (PaperTrader executed = False, Portfolio
\* execute_trade False, DryRunTradingEngine place_simulated_order None)
\* leaves the cash, the positions and the trade or order history as they
\* were.
C6_RejectionChangesNothing ==
    /\ (paper_call.op = "execute_signal" /\ paper_call.ret.executed = FALSE)
           => /\ paper.available_capital = paper_call.pre.available_capital
              /\ paper.portfolio = paper_call.pre.portfolio
              /\ paper.trades = paper_call.pre.trades
    /\ (pf_call.op = "execute_trade" /\ pf_call.ret = "False")
           => /\ pf.cash = pf_call.pre.cash
              /\ pf.positions = pf_call.pre.positions
              /\ pf.trades = pf_call.pre.trades
    /\ (dry_call.op = "place_simulated_order" /\ dry_call.ret = "None")
           => /\ dry.available_cash = dry_call.pre.available_cash
              /\ dry.positions = dry_call.pre.positions
              /\ dry.orders = dry_call.pre.orders

\* C6 witness: the DryRunTradingEngine refused a BUY it could not pay for,
\* holding a position and an order from earlier calls.
C6_Witness ==
    /\ dry_call.op = "place_simulated_order"
    /\ dry_call.order.transaction_type = "BUY"
    /\ dry_call.order.order_type = "LIMIT"
    /\ dry_call.order.limit_price # None
    /\ RGt(DryOrderCost(dry_call.order), dry_call.pre.available_cash)
    /\ dry_call.ret = "None"
    /\ dry.orders # << >>
    /\ DOMAIN dry.positions # {}

\* The events of the last cycle on its i-th signal whose call is one of ops.
CycleEvents(ops, i) ==
    {k \in 1..Len(cycle_call.events) :
        cycle_call.events[k].op \in ops /\ cycle_call.events[k].i = i}

\* C7: in a trading cycle risk validation precedes and gates execution.  A
\* call of execute_signal or present_signal on a signal comes after a
\* validate_signal of that signal that returned True; a signal for which
\* validate_signal returned False is passed to neither and counted as one
\* risk violation; a signal for which it returned True is counted as none
\* and passed to each enabled execution path once; and the cycle's
\* risk_violations is the number of signals counted.
C7_ValidationGatesExecution ==
    cycle_call.op = "_run_trading_cycle" =>
        LET events == cycle_call.events
            Validated(i, ret) ==
                {k \in CycleEvents({"validate_signal"}, i) : events[k].ret = ret}
            Forwarded(i) == CycleEvents({"execute_signal", "present_signal"}, i)
            Counted(i) == CycleEvents({"risk_violation"}, i)
        IN  /\ \A k \in 1..Len(events) :
                  events[k].op \in {"execute_signal", "present_signal"}
                      => \E j \in 1..(k - 1) :
                              /\ events[j].op = "validate_signal"
                              /\ events[j].i = events[k].i
                              /\ events[j].ret = "True"
            /\ \A i \in 1..Len(cycle_call.signals) :
                  /\ Cardinality(CycleEvents({"validate_signal"}, i)) <= 1
                  /\ Validated(i, "False") # {}
                         => /\ Forwarded(i) = {}
                            /\ Cardinality(Counted(i)) = 1
                  /\ Validated(i, "True") # {}
                         => /\ Counted(i) = {}
                            /\ sched.paper_enabled
                                   => Cardinality(CycleEvents({"execute_signal"}, i)) = 1
                            /\ sched.manual_enabled
                                   => Cardinality(CycleEvents({"present_signal"}, i)) = 1
                  /\ Validated(i, "False") = {} => Counted(i) = {}
                  /\ ~(Counted(i) # {} /\ Forwarded(i) # {})
            /\ cycle_call.result.risk_violations =
                   Cardinality({k \in 1..Len(events) : events[k].op = "risk_violation"})

\* C7 witness: a cycle of two signals whose first was rejected and counted,
\* and whose second was validated, executed on paper and presented for
\* manual execution.
C7_Witness ==
    /\ cycle_call.op = "_run_trading_cycle"
    /\ Len(cycle_call.signals) = 2
    /\ \E k \in CycleEvents({"validate_signal"}, 1) : cycle_call.events[k].ret = "False"
    /\ \E k \in CycleEvents({"execute_signal"}, 2) : cycle_call.events[k].ret = "executed"
    /\ CycleEvents({"present_signal"}, 2) # {}
    /\ cycle_call.result.risk_violations = 1
    /\ cycle_call.result.paper_trades = 1

\* C8: once more than ten violations have been logged since the last reset,
\* every validate_signal returns False.
C8_HaltAfterViolations ==
    (/\ risk_call.op = "validate_signal"
     /\ Len(risk_call.pre.risk_violations) > RM_violation_halt_count)
        => risk_call.ret = "False"

\* C9: whenever daily_pnl is below -(max_daily_loss_pct / 100) *
\* total_capital, validate_signal returns False, for every signal.
C9_DailyLossHalt ==
    (/\ harness = "risk"
     /\ risk_call.op = "validate_signal"
     /\ RLt(risk_call.pre.daily_pnl,
            RNeg(RMul(RDiv(risk_call.pre.max_daily_loss_pct, RInt(100)),
                      risk_call.pre.total_capital))))
        => risk_call.ret = "False"

\* The type of the earliest check of validate_signal the signal fails, in the
\* order structural, position size, daily loss, concentration, stop-loss;
\* "none" when it passes them all.
EarliestFailingCheck(rm, signal) ==
    LET position_value == RMul(RInt(signal.quantity), signal.price)
        held_value == IF signal.symbol \in DOMAIN rm.current_positions
                      THEN rm.current_positions[signal.symbol].value
                      ELSE Zero
        exposure == IF Upper(signal.action) = "BUY"
                    THEN RAdd(held_value, position_value)
                    ELSE RMax(Zero, RSub(held_value, position_value))
    IN  IF ~SignalStructurallyValid(signal)
        THEN "invalid_signal_parameters"
        ELSE IF RGt(RMul(position_value, RInt(100)),
                    RMul(rm.total_capital, rm.max_position_size_pct))
        THEN "position_size_exceeded"
        ELSE IF RLt(RMul(rm.daily_pnl, RInt(100)),
                    RNeg(RMul(rm.total_capital, rm.max_daily_loss_pct)))
        THEN "daily_loss_limit_exceeded"
        ELSE IF RGt(RMul(exposure, RInt(100)),
                    RMul(rm.total_capital, rm.max_concentration_pct))
        THEN "concentration_risk_exceeded"
        ELSE IF signal.stop_loss \in {None, Zero}
        THEN "missing_stop_loss"
        ELSE IF RGt(RM_stop_loss_distance_pct(signal), rm.stop_loss_pct)
        THEN "stop_loss_too_wide"
        ELSE "none"

\* C10: validate_signal applies its checks in the order structural, position
\* size, daily loss, concentration, stop-loss and stops at the first
\* failure: a rejected signal adds exactly one violation to the log, of the
\* type of the earliest failing check, and an accepted signal fails no check
\* and adds none.
C10_EarliestCheckLogged ==
    (harness = "risk" /\ risk_call.op = "validate_signal")
        => LET expected == EarliestFailingCheck(risk_call.pre, risk_call.signal)
           IN  /\ risk_call.ret = "False"
                      => /\ risk.risk_violations =
                                Append(risk_call.pre.risk_violations, [type |-> expected])
                         /\ risk.daily_limits.violations =
                                Append(risk_call.pre.daily_limits.violations,
                                       [type |-> expected])
               /\ risk_call.ret = "True"
                      => /\ expected = "none"
                         /\ risk.risk_violations = risk_call.pre.risk_violations

\* C10 witness: a signal failing the position size and the stop-loss check
\* was rejected while the daily loss limit was breached too, and the
\* violation logged is the position size one.
C10_Witness ==
    /\ harness = "risk"
    /\ risk_call.op = "validate_signal"
    /\ risk_call.ret = "False"
    /\ risk_call.signal.stop_loss = None
    /\ RLt(risk_call.pre.daily_pnl, RInt(-30))
    /\ Len(risk.risk_violations) = Len(risk_call.pre.risk_violations) + 1
    /\ risk.risk_violations[Len(risk.risk_violations)].type = "position_size_exceeded"

\* C11: rejection is never fatal.  In every reachable RiskManager state, a
\* freshly constructed manager on which reset_daily_limits has not run
\* included, validate_signal returns True or False without raising, and
\* every False return has appended a RiskViolation to risk_violations.
C11_RejectionNeverFatal ==
    (harness = "risk" /\ risk_call.op = "validate_signal")
        => /\ risk_call.ret \in {"True", "False"}
           /\ risk_call.ret = "False"
                  => Len(risk.risk_violations) =
                         Len(risk_call.pre.risk_violations) + 1

\* The exposure of the signal's instrument after the signal were executed:
\* the value held plus the trade value for a BUY, the value held less the
\* trade value, floored at zero, for a SELL.
ExposureAfter(rm, signal) ==
    LET held_value == IF signal.symbol \in DOMAIN rm.current_positions
                      THEN rm.current_positions[signal.symbol].value
                      ELSE Zero
        trade_value == RMul(RInt(signal.quantity), signal.price)
    IN  IF Upper(signal.action) = "BUY"
        THEN RAdd(held_value, trade_value)
        ELSE RMax(Zero, RSub(held_value, trade_value))

\* The signal would bring its instrument's exposure above
\* max_concentration_pct of total_capital.
ExceedsConcentration(rm, signal) ==
    RGt(RMul(ExposureAfter(rm, signal), RInt(100)),
        RMul(rm.max_concentration_pct, rm.total_capital))

\* validate_signal answered False and the violation it logged is the
\* concentration one.
RejectedForConcentration ==
    /\ risk_call.ret = "False"
    /\ risk.risk_violations =
           Append(risk_call.pre.risk_violations,
                  [type |-> "concentration_risk_exceeded"])

\* The signal is structurally valid, its value is within max_position_size
\* and the daily loss limit is not breached: validate_signal reaches its
\* concentration check.
ReachesConcentrationCheck(rm, signal) ==
    /\ SignalStructurallyValid(signal)
    /\ {"max_position_size", "max_daily_loss"} \subseteq rm.daily_limits.keys
    /\ RLe(RMul(RMul(RInt(signal.quantity), signal.price), RInt(100)),
           RMul(rm.max_position_size_pct, rm.total_capital))
    /\ RGe(RMul(rm.daily_pnl, RInt(100)),
           RNeg(RMul(rm.max_daily_loss_pct, rm.total_capital)))

\* C12 as stated: any signal whose execution would bring its instrument's
\* exposure above max_concentration_pct of total_capital is rejected by
\* validate_signal with a concentration violation.
C12_AnyExcessIsConcentrationViolation ==
    (/\ risk_call.op = "validate_signal"
     /\ SignalStructurallyValid(risk_call.signal)
     /\ ExceedsConcentration(risk_call.pre, risk_call.signal))
        => RejectedForConcentration

\* C12 amended: a signal that reaches the concentration check of
\* validate_signal (structurally valid, value within max_position_size,
\* daily loss limit not breached) and whose execution would bring its
\* instrument's exposure above max_concentration_pct of total_capital is
\* rejected with a concentration violation, and one that would not is not.
C12_ConcentrationRejected ==
    (/\ risk_call.op = "validate_signal"
     /\ ReachesConcentrationCheck(risk_call.pre, risk_call.signal))
        => (ExceedsConcentration(risk_call.pre, risk_call.signal)
                <=> RejectedForConcentration)

\* C12 witness: with total_capital 1,000,000 and max_concentration_pct 20,
\* a BUY of 40,000 on top of an exposure of 210,000 was rejected with a
\* concentration violation.
C12_Witness ==
    /\ harness = "concentration"
    /\ risk_call.op = "validate_signal"
    /\ risk_call.pre.total_capital = RInt(1000000)
    /\ risk_call.pre.max_concentration_pct = RInt(20)
    /\ ReachesConcentrationCheck(risk_call.pre, risk_call.signal)
    /\ ExposureAfter(risk_call.pre, risk_call.signal) = RInt(250000)
    /\ RejectedForConcentration

\* The i-th signal of the last cycle was validated with the answer True.
CycleAccepted(i) ==
    \E k \in CycleEvents({"validate_signal"}, i) : cycle_call.events[k].ret = "True"

\* The i-th signal of the last cycle was executed by the paper trader.
CyclePaperExecuted(i) ==
    \E k \in CycleEvents({"execute_signal"}, i) : cycle_call.events[k].ret = "executed"

\* C13: the risk check of a signal sees the trades executed earlier in the
\* same cycle.  Two BUY signals of one cycle for the same instrument, each
\* within max_concentration_pct of total_capital on the exposure the cycle
\* started with, the earlier one executed, and the two together above it,
\* are not both accepted.
C13_CumulativeRiskInCycle ==
    cycle_call.op = "_run_trading_cycle" =>
        \A i, j \in 1..Len(cycle_call.signals) :
            LET first == cycle_call.signals[i]
                second == cycle_call.signals[j]
                rm == cycle_call.pre.rm
                both == [second EXCEPT !.quantity = first.quantity + second.quantity]
            IN  (/\ i < j
                 /\ SignalStructurallyValid(first) /\ SignalStructurallyValid(second)
                 /\ Upper(first.action) = "BUY" /\ Upper(second.action) = "BUY"
                 /\ first.symbol = second.symbol
                 /\ first.price = second.price
                 /\ ~ExceedsConcentration(rm, first)
                 /\ ~ExceedsConcentration(rm, second)
                 /\ ExceedsConcentration(rm, both)
                 /\ CyclePaperExecuted(i))
                    => ~(CycleAccepted(i) /\ CycleAccepted(j))

\* validate_signal reaches its stop-loss check: the signal has passed the
\* structural, position size, daily loss and concentration checks.
ReachesStopLossCheck(rm, signal) ==
    /\ ReachesConcentrationCheck(rm, signal)
    /\ ~ExceedsConcentration(rm, signal)

\* The signal carries a stop-loss: the value is there and is not 0 (a
\* stop-loss of 0 is no stop-loss to "if not stop_loss").
StopLossPresent(signal) == signal.stop_loss \notin {None, Zero}

\* The directional stop-loss distance as a fraction of the price:
\* (price - stop_loss) / price for a BUY, (stop_loss - price) / price for a
\* SELL.
DirectionalDistance(signal) ==
    IF Upper(signal.action) = "BUY"
    THEN RDiv(RSub(signal.price, signal.stop_loss), signal.price)
    ELSE RDiv(RSub(signal.stop_loss, signal.price), signal.price)

\* C14: a signal that reaches the stop-loss check is accepted iff it
\* carries a stop-loss whose directional distance is at most stop_loss_pct
\* (percent); it is answered by True or False; and one without a stop-loss
\* is rejected with a missing_stop_loss violation.
C14_StopLossDistance ==
    (/\ harness = "risk"
     /\ risk_call.op = "validate_signal"
     /\ ReachesStopLossCheck(risk_call.pre, risk_call.signal))
        => /\ risk_call.ret \in {"True", "False"}
           /\ risk_call.ret = "True"
                  <=> /\ StopLossPresent(risk_call.signal)
                      /\ RLe(RMul(DirectionalDistance(risk_call.signal), RInt(100)),
                             risk_call.pre.stop_loss_pct)
           /\ ~StopLossPresent(risk_call.signal)
                  => /\ risk_call.ret = "False"
                     /\ risk.risk_violations =
                            Append(risk_call.pre.risk_violations,
                                   [type |-> "missing_stop_loss"])

\* C14 witness: a BUY whose stop-loss is at stop_loss_pct of the price
\* exactly reached the stop-loss check and was accepted.
C14_Witness ==
    /\ harness = "risk"
    /\ risk_call.op = "validate_signal"
    /\ ReachesStopLossCheck(risk_call.pre, risk_call.signal)
    /\ StopLossPresent(risk_call.signal)
    /\ RMul(DirectionalDistance(risk_call.signal), RInt(100)) = risk_call.pre.stop_loss_pct
    /\ risk_call.ret = "True"

\* C15: sizing cap.  For each of the four sizing methods, portfolio_value
\* >= 0, entry_price > 0, confidence in [0, 1] and any volatility,
\* calculate_position_size returns a quantity q with 0 <= q and
\* q * entry_price <= max_position_size * portfolio_value.
C15_SizingCap ==
    (/\ pf_call.op = "calculate_position_size"
     /\ pf_call.pre.position_size_method \in PositionSizeMethod
     /\ RGe(pf_call.args.portfolio_value, Zero)
     /\ RGt(pf_call.args.entry_price, Zero)
     /\ RGe(pf_call.args.confidence, Zero) /\ RLe(pf_call.args.confidence, RInt(1)))
        => /\ ~pf_call.ret.raised
           /\ RGe(pf_call.ret.size, Zero)
           /\ RLe(RMul(pf_call.ret.size, pf_call.args.entry_price),
                  RMul(pf_call.pre.risk_manager.max_position_size,
                       pf_call.args.portfolio_value))

\* C15 witness: a volatility-scaled size strictly inside the cap.
C15_Witness ==
    /\ pf_call.op = "calculate_position_size"
    /\ pf_call.pre.position_size_method = "risk_parity"
    /\ RGt(pf_call.args.entry_price, Zero)
    /\ RGt(pf_call.args.volatility, Zero)
    /\ ~pf_call.ret.raised
    /\ RGt(pf_call.ret.size, Zero)
    /\ RLt(RMul(pf_call.ret.size, pf_call.args.entry_price),
           RMul(pf_call.pre.risk_manager.max_position_size,
                pf_call.args.portfolio_value))

\* C16: for every sizing method, calculate_position_size called with
\* entry_price <= 0 signals a sizing error and returns no quantity, and a
\* Portfolio.execute_trade BUY at such a price creates no position and
\* spends no cash.
C16_NonPositivePriceIsSizingError ==
    /\ (/\ pf_call.op = "calculate_position_size"
        /\ RLe(pf_call.args.entry_price, Zero))
           => pf_call.ret.raised
    /\ (/\ pf_call.op = "execute_trade"
        /\ pf_call.trade.action = "BUY"
        /\ RLe(pf_call.trade.price, Zero))
           => /\ pf.positions = pf_call.pre.positions
              /\ pf.cash = pf_call.pre.cash

\* A rational that equals its own floor.
IsWhole(x) == x = RInt(x.n \div x.d)

\* C17: every quantity produced by position sizing and applied to a position
\* is a whole number of shares: the quantity traded by an executed
\* Portfolio.execute_trade BUY equals its own floor, and so does the
\* quantity DryRunTradingEngine._calculate_position_size returns.
C17_WholeShares ==
    /\ (/\ pf_call.op = "execute_trade"
        /\ pf_call.trade.action = "BUY"
        /\ pf_call.ret = "True")
           => IsWhole(pf.trades[Len(pf.trades)].shares)
    /\ dry_call.op = "_calculate_position_size" => IsWhole(RInt(dry_call.ret))

\* C18: slippage is always adverse.  For every trade executed by
\* PaperTrader.execute_signal with slippage_bps >= 0, the execution price of
\* a BUY is at least the signal price and that of a SELL at most the signal
\* price, and it equals the signal price only when slippage_bps is 0.
C18_SlippageAdverse ==
    (/\ paper_call.op = "execute_signal"
     /\ paper_call.ret.executed
     /\ paper_call.pre.slippage_bps >= 0)
        => LET trade == paper.trades[Len(paper.trades)]
               price == paper_call.signal.price
           IN  /\ trade.execution_price = paper_call.ret.execution_price
               /\ Upper(paper_call.signal.action) = "BUY"
                      => RGe(trade.execution_price, price)
               /\ Upper(paper_call.signal.action) = "SELL"
                      => RLe(trade.execution_price, price)
               /\ trade.execution_price = price => paper_call.pre.slippage_bps = 0

\* C18 witness: a SELL executed with a slippage of 100 basis points, below
\* the signal price.
C18_Witness ==
    /\ paper_call.op = "execute_signal"
    /\ paper_call.ret.executed
    /\ paper_call.pre.slippage_bps = 100
    /\ Upper(paper_call.signal.action) = "SELL"
    /\ RLt(paper.trades[Len(paper.trades)].execution_price, paper_call.signal.price)

\* Every instrument other than s has the same position record in the books
\* before and after, or is in neither.
OthersUnchanged(before, after, s) ==
    \A t \in (DOMAIN before \cup DOMAIN after) \ {s} :
        /\ t \in DOMAIN before
        /\ t \in DOMAIN after
        /\ before[t] = after[t]

\* C19: an executed trade for instrument S leaves the position record of
\* every other instrument as it was, in PaperTrader.execute_signal,
\* DryRunTradingEngine.place_simulated_order and Portfolio.execute_trade.
C19_OtherPositionsUntouched ==
    /\ (paper_call.op = "execute_signal" /\ paper_call.ret.executed)
           => OthersUnchanged(paper_call.pre.portfolio, paper.portfolio,
                              paper_call.signal.symbol)
    /\ (dry_call.op = "place_simulated_order" /\ dry_call.ret # "None")
           => OthersUnchanged(dry_call.pre.positions, dry.positions,
                              dry_call.order.symbol)
    /\ (pf_call.op = "execute_trade" /\ pf_call.ret = "True")
           => OthersUnchanged(pf_call.pre.positions, pf.positions,
                              pf_call.trade.ticker)

\* C19 witness: a Portfolio holding two instruments sold one of them, and
\* holds the other as before.
C19_Witness ==
    /\ pf_call.op = "execute_trade"
    /\ pf_call.ret = "True"
    /\ pf_call.trade.action = "SELL"
    /\ \E t \in DOMAIN pf_call.pre.positions :
          /\ t # pf_call.trade.ticker
          /\ t \in DOMAIN pf.positions
          /\ pf.positions[t] = pf_call.pre.positions[t]
    /\ pf_call.trade.ticker \notin DOMAIN pf.positions

\* The quantity-weighted mean of a position of quantity held at average
\* price avg and a fill of quantity q at price p (quantities as rationals).
WeightedMean(held, avg, q, p) ==
    RDiv(RAdd(RMul(held, avg), RMul(q, p)), RAdd(held, q))

\* After an executed PaperTrader BUY the position's avg_price is the
\* weighted mean of what was held and the fill at the execution price.
PaperAverageIsWeightedMean ==
    (/\ paper_call.op = "execute_signal"
     /\ paper_call.ret.executed
     /\ Upper(paper_call.signal.action) = "BUY")
        => LET s == paper_call.signal.symbol
               held == PaperHeld(paper_call.pre, s)
               avg == IF held = 0 THEN Zero ELSE paper_call.pre.portfolio[s].avg_price
           IN  paper.portfolio[s].avg_price =
                   WeightedMean(RInt(held), avg, RInt(paper_call.signal.quantity),
                                paper_call.ret.execution_price)

\* The same of a DryRunTradingEngine BUY order that was placed.
DryAverageIsWeightedMean ==
    (/\ dry_call.op = "place_simulated_order"
     /\ dry_call.ret # "None"
     /\ dry_call.order.transaction_type = "BUY")
        => LET s == dry_call.order.symbol
               before == dry_call.pre.positions
               held == IF s \in DOMAIN before THEN before[s].quantity ELSE 0
               avg == IF s \in DOMAIN before THEN before[s].average_price ELSE Zero
               price == IF dry_call.order.order_type = "LIMIT"
                        THEN dry_call.order.limit_price
                        ELSE dry_call.order.current_price
           IN  dry.positions[s].average_price =
                   WeightedMean(RInt(held), avg, RInt(dry_call.order.quantity), price)

\* The same of an executed Portfolio BUY, whose quantity is the one traded.
PortfolioAverageIsWeightedMean ==
    (/\ pf_call.op = "execute_trade"
     /\ pf_call.ret = "True"
     /\ pf_call.trade.action = "BUY")
        => LET s == pf_call.trade.ticker
               before == pf_call.pre.positions
               held == IF s \in DOMAIN before THEN before[s].shares ELSE Zero
               avg == IF s \in DOMAIN before THEN before[s].entry_price ELSE Zero
           IN  pf.positions[s].entry_price =
                   WeightedMean(held, avg, pf.trades[Len(pf.trades)].shares,
                                pf_call.trade.price)

\* The same of a BUY reported to RiskManager.update_position.
RiskAverageIsWeightedMean ==
    (/\ risk_call.op = "update_position"
     /\ Upper(risk_call.signal.action) = "BUY")
        => LET s == risk_call.signal.symbol
               before == risk_call.pre.current_positions
               held == IF s \in DOMAIN before THEN before[s].quantity ELSE 0
               avg == IF s \in DOMAIN before THEN before[s].avg_price ELSE Zero
           IN  risk.current_positions[s].avg_price =
                   WeightedMean(RInt(held), avg, RInt(risk_call.signal.quantity),
                                risk_call.signal.price)

\* C20: after BUY fills of one instrument with no SELL between them, the
\* position's average entry price is the quantity-weighted mean of the fill
\* prices, sum(q_i * p_i) / sum(q_i), in PaperTrader, DryRunTradingEngine,
\* Portfolio and RiskManager.update_position: the first fill sets it to the
\* fill price and every further fill to the weighted mean of the average
\* held and the fill.
C20_AverageIsWeightedMean ==
    /\ PaperAverageIsWeightedMean
    /\ DryAverageIsWeightedMean
    /\ PortfolioAverageIsWeightedMean
    /\ RiskAverageIsWeightedMean

\* The last PaperTrader call executed a SELL of no more than was held.
PaperReducingSell ==
    /\ paper_call.op = "execute_signal"
    /\ paper_call.ret.executed
    /\ Upper(paper_call.signal.action) = "SELL"
    /\ paper_call.signal.quantity
           <= PaperHeld(paper_call.pre, paper_call.signal.symbol)

\* The last DryRunTradingEngine call placed a SELL of no more than was held.
DryReducingSell ==
    /\ dry_call.op = "place_simulated_order"
    /\ dry_call.ret # "None"
    /\ dry_call.order.transaction_type = "SELL"
    /\ dry_call.order.symbol \in DOMAIN dry_call.pre.positions
    /\ dry_call.order.quantity
           <= dry_call.pre.positions[dry_call.order.symbol].quantity

\* Proceeds (fill price * quantity) less cost basis (average entry price *
\* quantity) less the transaction cost of the SELL.
RealizedPnl(price, avg, quantity, cost) ==
    RSub(RSub(RMul(price, RInt(quantity)), RMul(avg, RInt(quantity))), cost)

\* The execution price of a DryRunTradingEngine order.
DryFillPrice(order) ==
    IF order.order_type = "LIMIT" THEN order.limit_price ELSE order.current_price

\* C21: for every reducing or closing SELL the realized P&L recorded for the
\* trade is proceeds less cost basis (the position's average entry price *
\* quantity) less the SELL's own transaction cost, and the cumulative
\* realized P&L (the position's realized_pnl in PaperTrader, total_pnl in
\* DryRunTradingEngine) grows by exactly that value and by nothing on any
\* other call.
C21_RealizedPnl ==
    /\ PaperReducingSell
           => LET s == paper_call.signal.symbol
                  before == paper_call.pre.portfolio[s]
                  trade == paper.trades[Len(paper.trades)]
                  expected == RealizedPnl(trade.execution_price, before.avg_price,
                                          trade.quantity, trade.commission)
              IN  /\ trade.realized_pnl = expected
                  /\ paper_call.ret.pnl = expected
                  /\ paper.portfolio[s].realized_pnl =
                         RAdd(before.realized_pnl, expected)
    /\ (paper_call.op = "execute_signal" /\ ~PaperReducingSell)
           => \A s \in DOMAIN paper_call.pre.portfolio :
                  paper.portfolio[s].realized_pnl =
                      paper_call.pre.portfolio[s].realized_pnl
    /\ DryReducingSell
           => LET order == dry_call.order
                  before == dry_call.pre.positions[order.symbol]
                  value == RMul(RInt(order.quantity), DryFillPrice(order))
                  expected ==
                      RealizedPnl(DryFillPrice(order), before.average_price,
                                  order.quantity,
                                  DR_calculate_transaction_cost(value, "SELL"))
              IN  /\ dry.total_pnl = RAdd(dry_call.pre.total_pnl, expected)
                  /\ order.symbol \in DOMAIN dry.positions
                         => dry.positions[order.symbol].realized_pnl =
                                RAdd(before.realized_pnl, expected)
    /\ (dry_call.op # "none" /\ ~DryReducingSell)
           => dry.total_pnl = dry_call.pre.total_pnl

\* C21 witness: a PaperTrader sold part of a position at a price other than
\* its average price, and a realized P&L other than zero was recorded.
C21_Witness ==
    /\ PaperReducingSell
    /\ paper_call.signal.quantity
           < PaperHeld(paper_call.pre, paper_call.signal.symbol)
    /\ paper.trades[Len(paper.trades)].realized_pnl \notin {None, Zero}

\* The DryRunTradingEngine has placed exactly two orders, a BUY and then a
\* SELL of the same quantity of one instrument.
DryRoundTrip ==
    /\ harness = "dry"
    /\ Len(dry.orders) = 2
    /\ dry.orders[1].transaction_type = "BUY"
    /\ dry.orders[2].transaction_type = "SELL"
    /\ dry.orders[1].symbol = dry.orders[2].symbol
    /\ dry.orders[1].quantity = dry.orders[2].quantity

\* The transaction cost of a placed order.
DryCostOf(order) ==
    DR_calculate_transaction_cost(RMul(RInt(order.quantity), order.price),
                                  order.transaction_type)

\* q * (p2 - p1) less the cost of the BUY and the cost of the SELL.
RoundTripNet(q, p1, p2, buy_cost, sell_cost) ==
    RSub(RSub(RMul(q, RSub(p2, p1)), buy_cost), sell_cost)

\* After a round trip the DryRunTradingEngine holds no position in the
\* instrument and its cash is C + q * (p2 - p1) - buy cost - sell cost.
DryRoundTripCash ==
    DryRoundTrip
        => LET buy == dry.orders[1]
               sell == dry.orders[2]
           IN  /\ buy.symbol \notin DOMAIN dry.positions
               /\ dry.available_cash =
                      RAdd(dry.initial_capital,
                           RoundTripNet(RInt(buy.quantity), buy.price, sell.price,
                                        DryCostOf(buy), DryCostOf(sell)))

\* After a round trip the realized P&L of the DryRunTradingEngine is
\* q * (p2 - p1) less the buy commission and the sell commission.
DryRoundTripRealized ==
    DryRoundTrip
        => LET buy == dry.orders[1]
               sell == dry.orders[2]
           IN  dry.total_pnl =
                   RoundTripNet(RInt(buy.quantity), buy.price, sell.price,
                                DryCostOf(buy), DryCostOf(sell))

\* The Portfolio has made exactly two trades, a BUY and then the SELL of the
\* same instrument (which sells all its shares).
PortfolioRoundTrip ==
    /\ Len(pf.trades) = 2
    /\ pf.trades[1].action = "BUY"
    /\ pf.trades[2].action = "SELL"
    /\ pf.trades[1].ticker = pf.trades[2].ticker

\* After a round trip the Portfolio holds no position in the instrument and
\* its cash is C + q * (p2 - p1) - buy commission - sell commission.
PortfolioRoundTripCash ==
    PortfolioRoundTrip
        => LET buy == pf.trades[1]
               sell == pf.trades[2]
           IN  /\ buy.shares = sell.shares
               /\ buy.ticker \notin DOMAIN pf.positions
               /\ pf.cash =
                      RAdd(pf.initial_capital,
                           RoundTripNet(buy.shares, buy.price, sell.price,
                                        buy.commission, sell.commission))

\* C22: round trip.  Starting with cash C and no position, a BUY of q units
\* at p1 followed by a SELL of all q units at p2 leaves no position in the
\* instrument, cash C + q * (p2 - p1) - buy cost - sell cost, and a realized
\* P&L of q * (p2 - p1) less the buy commission and the sell commission.
C22_RoundTrip ==
    /\ DryRoundTripCash
    /\ DryRoundTripRealized
    /\ PortfolioRoundTripCash


\* No entry of the PaperTrader portfolio has quantity zero.
PaperNoZeroQuantity ==
    \A s \in DOMAIN paper.portfolio : paper.portfolio[s].quantity # 0

\* No entry of the DryRunTradingEngine positions has quantity zero.
DryNoZeroQuantity ==
    \A s \in DOMAIN dry.positions : dry.positions[s].quantity # 0

\* No entry of the Portfolio positions has zero shares.
PortfolioNoZeroQuantity ==
    \A t \in DOMAIN pf.positions : pf.positions[t].shares # Zero

\* C23: a position is removed when its quantity reaches zero: in every
\* reachable state of PaperTrader, DryRunTradingEngine and Portfolio the
\* positions map contains no entry whose quantity is zero.
C23_NoZeroQuantityPosition ==
    /\ PaperNoZeroQuantity
    /\ DryNoZeroQuantity
    /\ PortfolioNoZeroQuantity


\* The unrealized return of a position at a price.
ReturnAt(position, price) ==
    RDiv(RSub(price, position.entry_price), position.entry_price)

\* At the price, the position's unrealized return is <= -stop_loss_pct or
\* >= +take_profit_pct.
MustClose(pm, position, price) ==
    \/ RLe(ReturnAt(position, price), RNeg(pm.stop_loss_pct))
    \/ RGe(ReturnAt(position, price), pm.take_profit_pct)

\* The ledger entries a call appended.
NewTrades(before, after) ==
    {after.trades[i] : i \in (Len(before.trades) + 1)..Len(after.trades)}

\* Whether apply_risk_management had to close the ticker's position.
ClosedByRule(ticker) ==
    /\ ticker \in DOMAIN pf_call.current_prices
    /\ MustClose(pf_call.pre.risk_manager, pf_call.pre.positions[ticker],
                 pf_call.current_prices[ticker])

\* C24: after Portfolio.apply_risk_management(current_prices), every position
\* whose ticker has a price and whose unrealized return at that price is
\* <= -stop_loss_pct or >= +take_profit_pct has been closed by a SELL of all
\* its shares at that price, and every other position is still open with the
\* same share count.
C24_StopLossTakeProfit ==
    (pf_call.op = "apply_risk_management" /\ pf_call.ret = "None")
        => \A t \in DOMAIN pf_call.pre.positions :
               IF ClosedByRule(t)
               THEN /\ t \notin DOMAIN pf.positions
                    /\ \E trade \in NewTrades(pf_call.pre, pf) :
                           /\ trade.ticker = t
                           /\ trade.action = "SELL"
                           /\ trade.shares = pf_call.pre.positions[t].shares
                           /\ trade.price = pf_call.current_prices[t]
               ELSE /\ t \in DOMAIN pf.positions
                    /\ pf.positions[t].shares = pf_call.pre.positions[t].shares
                    /\ \A trade \in NewTrades(pf_call.pre, pf) : trade.ticker # t

\* apply_risk_management marked a position entered at 100 at 94 and closed
\* it, and marked another entered at 100 at 96 and left it open.
C24_Witness ==
    /\ pf_call.op = "apply_risk_management"
    /\ pf_call.ret = "None"
    /\ DOMAIN pf_call.pre.positions = Symbols
    /\ \A t \in Symbols : pf_call.pre.positions[t].entry_price = RInt(100)
    /\ DOMAIN pf_call.current_prices = Symbols
    /\ pf_call.current_prices["A"] = RInt(94)
    /\ pf_call.current_prices["B"] = RInt(96)
    /\ DOMAIN pf.positions = {"B"}
    /\ pf.positions["B"].current_price = RInt(96)


\* Portfolio.update_position_prices returns, marks the priced positions at
\* their prices and leaves every other position as it was.
PortfolioMarksPricedOnly ==
    pf_call.op = "update_position_prices"
        => /\ pf_call.ret = "None"
           /\ DOMAIN pf.positions = DOMAIN pf_call.pre.positions
           /\ \A t \in DOMAIN pf.positions :
                  IF t \in DOMAIN pf_call.price_data
                  THEN pf.positions[t] =
                           [pf_call.pre.positions[t] EXCEPT
                               !.current_price = pf_call.price_data[t]]
                  ELSE pf.positions[t] = pf_call.pre.positions[t]

\* DryRunTradingEngine.update_positions returns, marks the positions the feed
\* prices and leaves every other position as it was.
DryMarksPricedOnly ==
    dry_call.op = "update_positions"
        => /\ dry_call.ret = "None"
           /\ DOMAIN dry.positions = DOMAIN dry_call.pre.positions
           /\ \A s \in DOMAIN dry.positions :
                  IF dry_call.feed[s] # None
                  THEN /\ dry.positions[s].current_price = dry_call.feed[s]
                       /\ dry.positions[s].quantity = dry_call.pre.positions[s].quantity
                       /\ dry.positions[s].average_price =
                              dry_call.pre.positions[s].average_price
                  ELSE dry.positions[s] = dry_call.pre.positions[s]

\* C25: mark-to-market with an incomplete price feed does not fail and leaves
\* unpriced positions stale: Portfolio.update_position_prices and
\* DryRunTradingEngine.update_positions change current_price only for the
\* instruments that have a price, and every position without one keeps its
\* previous current_price, quantity and entry price.
C25_UnpricedPositionsStale ==
    /\ PortfolioMarksPricedOnly
    /\ DryMarksPricedOnly

\* update_position_prices was given a price for A and none for B while both
\* were held: A moved to the new price and B kept its mark.
C25_Witness ==
    /\ pf_call.op = "update_position_prices"
    /\ DOMAIN pf_call.pre.positions = Symbols
    /\ DOMAIN pf_call.price_data = {"A"}
    /\ pf.positions["A"].current_price # pf_call.pre.positions["A"].current_price
    /\ pf.positions["A"].current_price = pf_call.price_data["A"]
    /\ pf.positions["B"] = pf_call.pre.positions["B"]

\* update_positions ran while the feed priced A and not B, both held: A moved
\* to the new price and B kept its mark.
C25_DryWitness ==
    /\ dry_call.op = "update_positions"
    /\ DOMAIN dry_call.pre.positions = Symbols
    /\ dry_call.feed["A"] # None
    /\ dry_call.feed["B"] = None
    /\ dry.positions["A"].current_price # dry_call.pre.positions["A"].current_price
    /\ dry.positions["B"] = dry_call.pre.positions["B"]


\* The drawdown a state of the DryRunTradingEngine shows.
DryDrawdown(dr) == RDiv(RSub(dr.peak_value, dr.total_value), dr.peak_value)

\* peak_value and max_drawdown never decrease.
DryPeakAndDrawdownMonotone ==
    dry_call.op # "none"
        => /\ RGe(dry.peak_value, dry_call.pre.peak_value)
           /\ RGe(dry.max_drawdown, dry_call.pre.max_drawdown)

\* After update_positions, peak_value >= total_value and max_drawdown is the
\* larger of its previous value and the drawdown now observed.
DryDrawdownAtUpdate ==
    (dry_call.op = "update_positions" /\ dry_call.ret = "None")
        => /\ RGe(dry.peak_value, dry.total_value)
           /\ dry.max_drawdown = RMax(dry_call.pre.max_drawdown, DryDrawdown(dry))

\* Only update_positions changes peak_value and max_drawdown.
DryDrawdownOnlyAtUpdate ==
    dry_call.op = "place_simulated_order"
        => /\ dry.peak_value = dry_call.pre.peak_value
           /\ dry.max_drawdown = dry_call.pre.max_drawdown

\* A new DryRunTradingEngine has seen no drawdown and its peak is its capital.
DryDrawdownInitially ==
    (harness = "dry" /\ dry_call.op = "none")
        => /\ dry.max_drawdown = Zero
           /\ dry.peak_value = dry.initial_capital

\* C26: across any sequence of trades and update_positions calls in
\* DryRunTradingEngine, peak_value never decreases, peak_value >= total_value
\* holds after every update_positions, and max_drawdown never decreases and
\* equals the largest (peak_value - total_value) / peak_value observed at any
\* update_positions so far (0 before the first).
C26_PeakAndDrawdown ==
    /\ DryDrawdownInitially
    /\ DryPeakAndDrawdownMonotone
    /\ DryDrawdownAtUpdate
    /\ DryDrawdownOnlyAtUpdate

\* update_positions observed a drawdown: total_value is below peak_value and
\* max_drawdown is positive.
C26_Witness ==
    /\ dry_call.op = "update_positions"
    /\ dry_call.ret = "None"
    /\ RLt(dry.total_value, dry.peak_value)
    /\ RGt(dry.max_drawdown, Zero)
    /\ dry.max_drawdown = DryDrawdown(dry)


\* RiskManager.reset_daily_limits zeroes the daily P&L and empties the
\* violation log, and leaves the tracked positions and the capital.
RiskResetKeepsPositions ==
    risk_call.op = "reset_daily_limits"
        => /\ risk.daily_pnl = Zero
           /\ risk.daily_limits.daily_pnl = Zero
           /\ risk.risk_violations = << >>
           /\ risk.daily_limits.violations = << >>
           /\ risk.current_positions = risk_call.pre.current_positions
           /\ risk.total_capital = risk_call.pre.total_capital

\* PaperTrader.initialize_daily_session zeroes the daily P&L and leaves the
\* paper portfolio and available_capital.
PaperResetKeepsPortfolio ==
    paper_call.op = "initialize_daily_session"
        => /\ paper.daily_pnl = Zero
           /\ paper.portfolio = paper_call.pre.portfolio
           /\ paper.available_capital = paper_call.pre.available_capital

\* C27: the daily reset (RiskManager.reset_daily_limits together with
\* PaperTrader.initialize_daily_session) sets the daily P&L to zero and
\* empties the violation log, and leaves cumulative portfolio state
\* unchanged: tracked positions, the paper portfolio and available_capital
\* are the same after the reset as before.
C27_DailyResetKeepsPortfolio ==
    /\ RiskResetKeepsPositions
    /\ PaperResetKeepsPortfolio

\* reset_daily_limits ran on a manager that tracked a position, had a daily
\* P&L and had logged a violation.
C27_Witness ==
    /\ risk_call.op = "reset_daily_limits"
    /\ risk_call.pre.current_positions # EmptyMap
    /\ risk_call.pre.daily_pnl # Zero
    /\ risk_call.pre.risk_violations # << >>
    /\ risk.current_positions = risk_call.pre.current_positions

\* initialize_daily_session ran on a trader that held a position, had a
\* daily P&L and had spent capital.
C27_PaperWitness ==
    /\ paper_call.op = "initialize_daily_session"
    /\ paper_call.pre.portfolio # EmptyMap
    /\ paper_call.pre.daily_pnl # Zero
    /\ paper_call.pre.available_capital # paper.initial_capital
    /\ paper.portfolio = paper_call.pre.portfolio


\* C28: the trade ledger is append-only: across any sequence of PaperTrader
\* operations, including initialize_daily_session, every trade once recorded
\* stays in the ledger at the same position with the same contents, so the
\* ledger after an operation has the ledger before it as a prefix.
C28_LedgerAppendOnly ==
    paper_call.op # "none"
        => /\ Len(paper.trades) >= Len(paper_call.pre.trades)
           /\ SubSeq(paper.trades, 1, Len(paper_call.pre.trades)) = paper_call.pre.trades

\* execute_signal alone keeps the ledger it found as a prefix.
PaperExecuteSignalAppends ==
    paper_call.op = "execute_signal"
        => /\ Len(paper.trades) >= Len(paper_call.pre.trades)
           /\ SubSeq(paper.trades, 1, Len(paper_call.pre.trades)) = paper_call.pre.trades


\* The step is a pass of _run_trading_cycle that fetched no signal.
EmptyCycleStep ==
    /\ harness = "cycle"
    /\ steps' # steps
    /\ cycle_call'.op = "_run_trading_cycle"
    /\ cycle_call'.signals = << >>

\* The step leaves cash, positions, the trade list and the violation log.
CycleFrameUnchanged ==
    /\ paper'.available_capital = paper.available_capital
    /\ paper'.portfolio = paper.portfolio
    /\ paper'.trades = paper.trades
    /\ risk'.current_positions = risk.current_positions
    /\ risk'.risk_violations = risk.risk_violations
    /\ pf'.cash = pf.cash
    /\ pf'.positions = pf.positions
    /\ pf'.trades = pf.trades

\* The step adds exactly one sample to the equity curve (Portfolio.daily_values,
\* the one value series the repository keeps).
OneNewEquitySample ==
    /\ Len(pf'.daily_values) = Len(pf.daily_values) + 1
    /\ SubSeq(pf'.daily_values, 1, Len(pf.daily_values)) = pf.daily_values

\* C29: a trading cycle that receives zero signals leaves cash, positions,
\* the trade list and the violation log unchanged and adds exactly one new
\* equity-curve sample at the current mark.
C29_EmptyCycle ==
    [][EmptyCycleStep => (CycleFrameUnchanged /\ OneNewEquitySample)]_vars

\* The frame part alone: an empty cycle changes none of the objects.
EmptyCycleChangesNothing ==
    [][EmptyCycleStep
           => /\ CycleFrameUnchanged
              /\ UNCHANGED <<paper, risk, manual, tracker, pf>>]_vars

\* A day of run_portfolio_backtest without signals records one sample, the
\* portfolio value after the marks and the stops.
BacktestDayRecordsOneSample ==
    (pf_call.op = "backtest_day" /\ pf_call.ret = "None")
        => /\ Len(pf.daily_values) = Len(pf_call.pre.daily_values) + 1
           /\ pf.daily_values[Len(pf.daily_values)] = PF_portfolio_value(pf)

\* A day of run_portfolio_backtest without signals leaves cash, positions
\* (but for their marks) and the trade list.
BacktestDayKeepsBook ==
    (pf_call.op = "backtest_day" /\ pf_call.ret = "None")
        => /\ pf.cash = pf_call.pre.cash
           /\ DOMAIN pf.positions = DOMAIN pf_call.pre.positions
           /\ pf.trades = pf_call.pre.trades


\* The step is one of start_trading (and not the arrival of the signal).
LiveControllerStep ==
    /\ harness = "live"
    /\ live' # live
    /\ live'.emergency_stop = live.emergency_stop

\* The pairs execute_strategy_signals was called with in the cycle under way.
CallsOfCycle(lv) ==
    {<<c.symbol, c.strategy_name>> : c \in {lv.invoked[k] : k \in
        {k \in DOMAIN lv.invoked : lv.invoked[k].cycle = lv.cycle}}}

\* Every pair of a symbol of active_symbols[:3] and a configured strategy.
AllPairs(lv) ==
    {<<LV_cycle_symbols(lv)[i], lv.config.strategies[j]>> :
        i \in DOMAIN LV_cycle_symbols(lv), j \in DOMAIN lv.config.strategies}

\* Inside the loop every step of the controller makes the next call,
\* whatever emergency_stop is.
LoopStepCalls ==
    (LiveControllerStep /\ live.pc = "execute_strategy_signals")
        => live'.invoked = Append(live.invoked, LV_next_call(live))

\* The loop is left only when every pair has been called in this cycle.
LoopLeftComplete ==
    (LiveControllerStep /\ live.pc = "execute_strategy_signals"
                        /\ live'.pc # "execute_strategy_signals")
        => CallsOfCycle(live') = AllPairs(live')

\* execute_strategy_signals is called nowhere but inside the loop.
CallsOnlyInLoop ==
    (harness = "live" /\ live.pc # "execute_strategy_signals")
        => live'.invoked = live.invoked

\* With emergency_stop set no step begins another cycle, so every later call
\* belongs to the cycle that was under way when the signal arrived.
StoppedBeginsNoCycle ==
    (harness = "live" /\ live.emergency_stop)
        => /\ live'.cycle = live.cycle
           /\ live'.emergency_stop

\* C30: in LiveTradingController a shutdown signal (the handler setting
\* emergency_stop) arriving while execute_trading_cycle is running does not
\* interrupt that cycle's symbol x strategy loop, and after the flag is set
\* no later cycle invokes execute_strategy_signals: cancellation takes
\* effect only at the boundary between cycles.
C30_CancellationBetweenCycles ==
    [][LoopStepCalls /\ LoopLeftComplete /\ CallsOnlyInLoop /\ StoppedBeginsNoCycle]_vars

\* The signal arrived inside the loop of a cycle of several calls: the first
\* call saw emergency_stop unset, the last saw it set, and the loop has ended
\* with every pair called.
C30_Witness ==
    /\ harness = "live"
    /\ live.pc = "update_performance_metrics"
    /\ live.emergency_stop
    /\ \E k \in DOMAIN live.invoked :
           /\ live.invoked[k].cycle = live.cycle
           /\ ~live.invoked[k].emergency_stop
    /\ live.invoked[Len(live.invoked)].cycle = live.cycle
    /\ live.invoked[Len(live.invoked)].emergency_stop
    /\ CallsOfCycle(live) = AllPairs(live)
    /\ Cardinality(AllPairs(live)) = 6

\* The signal arrived after the cycle began and before its check of
\* emergency_stop: the cycle has returned without a call.
LiveCycleSkipped ==
    /\ harness = "live"
    /\ live.pc = "sleep"
    /\ live.emergency_stop
    /\ ~live.circuit_breaker_triggered
    /\ live.cycle = 1
    /\ live.invoked = << >>


\* The i-th signal of the last cycle has gone through validation and, if
\* accepted, through every enabled execution path.
CycleWentThrough(i) ==
    \/ \E k \in CycleEvents({"validate_signal"}, i) : cycle_call.events[k].ret = "False"
    \/ /\ CycleAccepted(i)
       /\ sched.paper_enabled => CycleEvents({"execute_signal"}, i) # {}
       /\ sched.manual_enabled => CycleEvents({"present_signal"}, i) # {}

\* C31: a cycle is all-or-nothing: when _run_trading_cycle returns, either
\* every fetched signal has gone through validation and (if accepted)
\* execution, or none has; the cycle never returns with a proper non-empty
\* prefix of its signals applied and the rest unprocessed.
C31_CycleAllOrNothing ==
    cycle_call.op = "_run_trading_cycle"
        => \/ \A i \in 1..Len(cycle_call.signals) : CycleWentThrough(i)
           \/ \A i \in 1..Len(cycle_call.signals) : ~CycleWentThrough(i)

\* A cycle that returns without an error has taken every signal through.
CycleWithoutErrorIsComplete ==
    (cycle_call.op = "_run_trading_cycle" /\ ~cycle_call.result.error)
        => \A i \in 1..Len(cycle_call.signals) : CycleWentThrough(i)


\* The last cycle executed its first signal on paper and returned without
\* validating its second.
CycleLeftPartlyApplied ==
    /\ cycle_call.op = "_run_trading_cycle"
    /\ Len(cycle_call.signals) = 2
    /\ CyclePaperExecuted(1)
    /\ paper.trades # cycle_call.pre.pt.trades
    /\ CycleEvents({"validate_signal"}, 2) = {}


\* The four percentage thresholds of a RiskManager are above zero.
ThresholdsPositive(rm) ==
    /\ RGt(rm.max_position_size_pct, Zero)
    /\ RGt(rm.max_daily_loss_pct, Zero)
    /\ RGt(rm.stop_loss_pct, Zero)
    /\ RGt(rm.max_concentration_pct, Zero)

\* No signal is validated by a RiskManager with a threshold at 0 or below.
NoValidationUnderBadThresholds ==
    risk_call.op = "validate_signal" => ThresholdsPositive(risk_call.pre)

\* No position is sized under a method that is none of the four.
NoSizingUnderUnknownMethod ==
    pf_call.op = "calculate_position_size"
        => pf_call.pre.position_size_method \in PositionSizeMethod

\* C32: session initialization fails immediately on a configuration error:
\* a risk manager with a non-positive threshold or an unknown sizing method
\* raises an error at startup, and no signal is ever validated or sized under
\* such a configuration.
C32_ConfigErrorFailsFast ==
    /\ NoValidationUnderBadThresholds
    /\ NoSizingUnderUnknownMethod

\* A RiskManager whose stop_loss_pct is 0 or below has accepted a signal.
AcceptedUnderBadThresholds ==
    /\ risk_call.op = "validate_signal"
    /\ ~ThresholdsPositive(risk_call.pre)
    /\ risk_call.ret = "True"

\* An unknown sizing method has sized a position at 0 without an error.
SizedZeroUnderUnknownMethod ==
    /\ pf_call.op = "calculate_position_size"
    /\ pf_call.pre.position_size_method \notin PositionSizeMethod
    /\ ~pf_call.ret.raised
    /\ pf_call.ret.size = Zero


(***************************************************************************)
(* Win rate.                                                               *)
(***************************************************************************)
\* The place in the ledger of the last SELL of the ticker of trade i before
\* i, or 0.
LastSellBefore(trades, i) ==
    LET sells == {j \in 1..(i - 1) : /\ trades[j].ticker = trades[i].ticker
                                     /\ trades[j].action = "SELL"}
    IN  IF sells = {} THEN 0 ELSE CHOOSE j \in sells : \A k \in sells : k <= j

\* The BUYs that the SELL at place i closes.
ClosedBuys(trades, i) ==
    {j \in (LastSellBefore(trades, i) + 1)..(i - 1) :
        trades[j].ticker = trades[i].ticker /\ trades[j].action = "BUY"}

\* The realized P&L of the SELL at place i: its proceeds less its commission
\* and less what the shares it closes were bought for.
SellRealizedPnl(trades, i) ==
    RSub(RSub(RMul(trades[i].shares, trades[i].price), trades[i].commission),
         RSum([j \in ClosedBuys(trades, i) |-> RMul(trades[j].shares, trades[j].price)]))

\* The closing trades of the ledger, and those of them that won.
ClosingTrades(trades) == {i \in DOMAIN trades : trades[i].action = "SELL"}
WinningClosingTrades(trades) ==
    {i \in ClosingTrades(trades) : RGt(SellRealizedPnl(trades, i), Zero)}

\* Winning closing trades over closing trades in percent, 0 without closes.
ExpectedWinRatePct(trades) ==
    IF ClosingTrades(trades) = {}
    THEN Zero
    ELSE Rat(Cardinality(WinningClosingTrades(trades)) * 100,
             Cardinality(ClosingTrades(trades)))

\* C33: the win rate that get_performance_metrics reports is the number of
\* SELL trades with a positive realized P&L over the number of SELL trades
\* (in percent, rounded to two places), and 0 when no trade is a SELL.
C33_WinRate ==
    (pf_call.op = "get_performance_metrics" /\ ~pf_call.ret.empty)
        => pf_call.ret.win_rate_pct = PF_round2(ExpectedWinRatePct(pf.trades))

\* A reported win rate of 0 after the one closing trade won.
WinRateZeroAfterWin ==
    /\ pf_call.op = "get_performance_metrics"
    /\ ~pf_call.ret.empty
    /\ Len(pf.trades) = 2
    /\ WinningClosingTrades(pf.trades) = {2}
    /\ pf_call.ret.win_rate_pct = Zero

\* A win rate reported as the ledger gives it, with a SELL in the ledger.
WinRateAgrees ==
    /\ pf_call.op = "get_performance_metrics"
    /\ ~pf_call.ret.empty
    /\ ClosingTrades(pf.trades) # {}
    /\ pf_call.ret.win_rate_pct = PF_round2(ExpectedWinRatePct(pf.trades))
    /\ pf_call.ret.win_rate_pct # Zero


\* DryRunTradingEngine counts a closing trade for no more than every SELL
\* order, and a winning one for no more than every closing trade; the win
\* rate of get_portfolio_summary is winning_trades / max(trades_executed, 1).
DryWinCounters ==
    /\ dry.winning_trades <= dry.trades_executed
    /\ dry.trades_executed
         <= Cardinality({i \in DOMAIN dry.orders : dry.orders[i].transaction_type = "SELL"})


(***************************************************************************)
(* Order validation.                                                       *)
(***************************************************************************)
\* validate_order was called on the order and this is what came of it.
Validated == order_call.op = "validate_order"

\* The fields the errors of the result name.
ErrorFields(ret) == {ret.errors[i].field : i \in DOMAIN ret.errors}

\* An order that has its four required fields, of a valid direction and type,
\* with the prices its type needs, and nothing wrong with any field.
ValidOrder(order) ==
    /\ order.symbol.t = "str" /\ order.symbol.len \in 1..20
    /\ order.quantity.t = "num" /\ order.quantity.v > 0
    /\ order.direction.t = "str" /\ order.direction.s \in OrderDirection
    /\ order.order_type.t = "str" /\ order.order_type.s \in OrderType
    /\ order.order_type.s \in {"LIMIT", "STOP_LIMIT"} => order.limit_price.t # "absent"
    /\ order.order_type.s \in {"STOP", "STOP_LIMIT"} => order.stop_price.t # "absent"
    /\ order.limit_price.t # "absent" => order.limit_price.v > 0
    /\ order.stop_price.t # "absent" => order.stop_price.v > 0
    /\ order.time_in_force.t # "absent" => order.time_in_force.s \in TimeInForce

\* C34: for every order dict validate_order returns a result, is_valid is
\* true exactly when the result's errors are empty, and a valid order of a
\* quantity above 10000 is valid with a warning on the quantity field.
C34_ValidIffNoErrors ==
    Validated =>
        /\ order_call.ret.raised = ""
        /\ order_call.ret.is_valid <=> (order_call.ret.errors = << >>)
        /\ (ValidOrder(order_call.order) /\ order_call.order.quantity.v > 10000)
               => /\ order_call.ret.is_valid
                  /\ \E i \in DOMAIN order_call.ret.warnings :
                         order_call.ret.warnings[i].field = "quantity"

\* Whenever validate_order returns, is_valid is true exactly when the errors
\* are empty, whatever the warnings.
ReturnedValidIffNoErrors ==
    (Validated /\ order_call.ret.raised = "")
        => (order_call.ret.is_valid <=> (order_call.ret.errors = << >>))

\* A valid large order is returned valid with its warning.
LargeOrderValidWithWarning ==
    /\ Validated
    /\ ValidOrder(order_call.order)
    /\ order_call.order.quantity.v > 10000
    /\ order_call.ret.is_valid
    /\ Len(order_call.ret.warnings) = 1

\* validate_order left by an exception.
ValidateOrderRaised == Validated /\ order_call.ret.raised = "TypeError"


\* The required fields that are absent from the order or empty in it, in the
\* order of the loop.
IsMissing(order, field) ==
    \/ order[field].t = "absent"
    \/ order[field].t = "str" /\ order[field].len = 0
    \/ order[field].t = "num" /\ order[field].v = 0
MissingFields(order) ==
    SelectSeq(VO_required_fields, LAMBDA field : IsMissing(order, field))

\* C35: an order in which any of symbol, quantity, direction, order_type is
\* absent or empty is returned invalid with exactly one error per such field,
\* naming the field, and with no error on any other field and no warning.
C35_MissingRequiredFields ==
    (Validated /\ MissingFields(order_call.order) # << >>)
        => /\ order_call.ret.raised = ""
           /\ ~order_call.ret.is_valid
           /\ Len(order_call.ret.errors) = Len(MissingFields(order_call.order))
           /\ \A i \in DOMAIN order_call.ret.errors :
                  /\ order_call.ret.errors[i].field = MissingFields(order_call.order)[i]
                  /\ order_call.ret.errors[i].severity = "error"
                  /\ order_call.ret.errors[i].message = "Missing required field"
           /\ order_call.ret.warnings = << >>

\* An order without quantity and with an empty direction, whose symbol is too
\* long and whose LIMIT type lacks its price, returned with the two errors of
\* the missing fields alone.
C35_Witness ==
    /\ Validated
    /\ MissingFields(order_call.order) = <<"quantity", "direction">>
    /\ order_call.order.symbol.len > 20
    /\ order_call.order.order_type.s = "LIMIT"
    /\ order_call.order.limit_price.t = "absent"
    /\ Len(order_call.ret.errors) = 2

\* An order that needs a price it lacks, or has a direction other than BUY and
\* SELL.
LacksLimitPrice(order) ==
    /\ order.order_type.t = "str" /\ order.order_type.s \in {"LIMIT", "STOP_LIMIT"}
    /\ order.limit_price.t = "absent"
LacksStopPrice(order) ==
    /\ order.order_type.t = "str" /\ order.order_type.s \in {"STOP", "STOP_LIMIT"}
    /\ order.stop_price.t = "absent"
UnknownDirection(order) ==
    ~(order.direction.t = "str" /\ order.direction.s \in OrderDirection)

\* C36: validate_order returns every order that lacks the limit_price or the
\* stop_price its type needs with an error on that field, every order of a
\* direction other than BUY and SELL with an error on direction, and each of
\* them with is_valid false.
C36_MissingPriceOrBadDirection ==
    Validated =>
        /\ LacksLimitPrice(order_call.order)
               => /\ order_call.ret.raised = "" /\ ~order_call.ret.is_valid
                  /\ "limit_price" \in ErrorFields(order_call.ret)
        /\ LacksStopPrice(order_call.order)
               => /\ order_call.ret.raised = "" /\ ~order_call.ret.is_valid
                  /\ "stop_price" \in ErrorFields(order_call.ret)
        /\ UnknownDirection(order_call.order)
               => /\ order_call.ret.raised = "" /\ ~order_call.ret.is_valid
                  /\ "direction" \in ErrorFields(order_call.ret)

\* The same of the orders that have their four required fields, whenever
\* validate_order returns.
ReturnedMissingPriceOrBadDirection ==
    (Validated /\ MissingFields(order_call.order) = << >> /\ order_call.ret.raised = "")
        => /\ LacksLimitPrice(order_call.order)
               => ~order_call.ret.is_valid /\ "limit_price" \in ErrorFields(order_call.ret)
           /\ LacksStopPrice(order_call.order)
               => ~order_call.ret.is_valid /\ "stop_price" \in ErrorFields(order_call.ret)
           /\ UnknownDirection(order_call.order)
               => ~order_call.ret.is_valid /\ "direction" \in ErrorFields(order_call.ret)

\* No order is returned valid that lacks a price it needs or has an unknown
\* direction.
NeverValidWithoutPrice ==
    (Validated /\ (\/ LacksLimitPrice(order_call.order)
                   \/ LacksStopPrice(order_call.order)
                   \/ UnknownDirection(order_call.order)))
        => ~order_call.ret.is_valid

\* An order of an unknown direction and a quantity that is a string, which
\* validate_order leaves by a TypeError.
UnknownDirectionRaised ==
    /\ Validated
    /\ order_call.order.direction.s = "INVALID"
    /\ order_call.order.symbol.t = "str"
    /\ order_call.ret.raised = "TypeError"

\* A LIMIT order without limit_price and without symbol, returned with no
\* error on limit_price.
LimitWithoutPriceUnreported ==
    /\ Validated
    /\ LacksLimitPrice(order_call.order)
    /\ order_call.ret.raised = ""
    /\ "limit_price" \notin ErrorFields(order_call.ret)


(***************************************************************************)
(* Trade identifiers of the paper trader.                                  *)
(***************************************************************************)
\* The trade_ids of a ledger.
TradeIds(trades) == {trades[i].trade_id : i \in DOMAIN trades}

\* The trade_ids known to have been issued: those of the ledger now and those
\* of the ledger the previous call found.
IssuedTradeIds ==
    TradeIds(paper.trades)
        \cup (IF paper_call.op = "none" THEN {} ELSE TradeIds(paper_call.pre.trades))

\* An execute_signal step that executed a trade.
PaperExecuted ==
    /\ paper_call'.op = "execute_signal"
    /\ paper_call'.ret.executed

\* C37: no executed trade is given a trade_id that an earlier trade of the
\* trader was given, across execute_signal and initialize_daily_session.
C37_TradeIdsUnique ==
    [][PaperExecuted => paper_call'.ret.trade_id \notin IssuedTradeIds]_vars

\* Within one session the ledger holds no trade_id twice.
SessionTradeIdsUnique ==
    \A i, j \in DOMAIN paper.trades :
        paper.trades[i].trade_id = paper.trades[j].trade_id => i = j

\* A ledger of two trades with two ids.
TwoTradesTwoIds == Len(paper.trades) = 2 /\ Cardinality(TradeIds(paper.trades)) = 2

\* The first trade of a session that follows a session with a trade.
FirstTradeOfLaterSession ==
    /\ paper_call.op = "initialize_daily_session"
    /\ paper_call.pre.trades # << >>
    /\ paper.trades = << >>


(***************************************************************************)
(* The order log of the dry-run engine.                                    *)
(***************************************************************************)
\* The quantity of the symbol a DryRunTradingEngine holds.
DryHeldQuantity(dr, symbol) ==
    IF symbol \in DOMAIN dr.positions THEN dr.positions[symbol].quantity ELSE 0

\* A place_simulated_order step that returned an order id.
DryOrderPlaced ==
    /\ dry_call'.op = "place_simulated_order"
    /\ dry_call'.ret # "None"

\* C38: place_simulated_order returns an order id and appends an order to
\* orders only if the order changed available_cash and the held quantity of
\* its symbol; a SELL of a symbol that is not held, or of more than is held,
\* returns None and appends nothing.
C38_OrderLogMatchesFills ==
    [][/\ (DryOrderPlaced \/ Len(dry'.orders) # Len(dry.orders))
           => /\ dry'.available_cash # dry.available_cash
              /\ DryHeldQuantity(dry', dry_call'.order.symbol)
                     # DryHeldQuantity(dry, dry_call'.order.symbol)
       /\ (/\ dry_call'.op = "place_simulated_order"
           /\ dry_call'.order.transaction_type = "SELL"
           /\ dry_call'.order.quantity > DryHeldQuantity(dry, dry_call'.order.symbol))
           => /\ dry_call'.ret = "None"
              /\ dry'.orders = dry.orders]_vars

\* An order is appended exactly when an order id is returned, and it is
\* COMPLETE.
DryOrderAppendedIffReturned ==
    [][dry_call'.op = "place_simulated_order"
           => IF dry_call'.ret = "None"
              THEN dry'.orders = dry.orders
              ELSE /\ Len(dry'.orders) = Len(dry.orders) + 1
                   /\ dry'.orders[Len(dry'.orders)].status = "COMPLETE"]_vars

\* Every BUY that returns an order id has changed cash and position.
DryBuyLogMatchesFill ==
    [][(DryOrderPlaced /\ dry_call'.order.transaction_type = "BUY")
           => /\ dry'.available_cash # dry.available_cash
              /\ DryHeldQuantity(dry', dry_call'.order.symbol)
                     > DryHeldQuantity(dry, dry_call'.order.symbol)]_vars

\* A SELL of a symbol the engine does not hold, logged as a COMPLETE order
\* that changed nothing else.
DrySellOfNothingLogged ==
    /\ dry_call.op = "place_simulated_order"
    /\ dry_call.order.transaction_type = "SELL"
    /\ dry_call.pre.positions = EmptyMap
    /\ dry_call.ret # "None"
    /\ Len(dry.orders) = Len(dry_call.pre.orders) + 1
    /\ dry.available_cash = dry_call.pre.available_cash
    /\ dry.positions = dry_call.pre.positions


(***************************************************************************)
(* The circuit breaker of the live controller.                             *)
(***************************************************************************)
\* Once triggered the circuit breaker stays triggered.
CircuitBreakerLatched ==
    (harness = "live" /\ live.circuit_breaker_triggered)
        => live'.circuit_breaker_triggered

\* With the circuit breaker triggered no step calls execute_strategy_signals.
TriggeredCallsNothing ==
    (harness = "live" /\ live.circuit_breaker_triggered)
        => live'.invoked = live.invoked

\* The step that triggers the circuit breaker calls nothing and leaves the
\* cycle: what follows it is the wait for the next cycle.
TriggeringLeavesCycle ==
    (harness = "live" /\ ~live.circuit_breaker_triggered /\ live'.circuit_breaker_triggered)
        => /\ live'.invoked = live.invoked
           /\ live'.pc \in {"start_trading", "sleep"}

\* C39: the circuit breaker of LiveTradingController is a latch: once
\* circuit_breaker_triggered is true (set by check_risk_limits on a daily_loss
\* or max_drawdown violation, or by emergency_shutdown) it is never false
\* again, and no execute_trading_cycle calls execute_strategy_signals from
\* then on, the cycle that detected the violation included.
C39_CircuitBreakerLatch ==
    [][CircuitBreakerLatched /\ TriggeredCallsNothing /\ TriggeringLeavesCycle]_vars

\* A second cycle halted by the circuit breaker that check_risk_limits
\* triggered, with symbols and strategies to run and no call made.
C39_Witness ==
    /\ harness = "live"
    /\ live.circuit_breaker_triggered
    /\ ~live.emergency_stop
    /\ live.cycle = 2
    /\ live.pc = "sleep"
    /\ LV_cycle_symbols(live) # << >>
    /\ live.config.strategies # << >>
    /\ \A k \in DOMAIN live.invoked : live.invoked[k].cycle = 1

\* The circuit breaker triggered by emergency_shutdown between two cycles,
\* after the calls of the first.
EmergencyShutdownAfterCalls ==
    /\ harness = "live"
    /\ live.circuit_breaker_triggered
    /\ live.emergency_stop
    /\ live.invoked # << >>
    /\ live.pc = "stopped"


(***************************************************************************)
(* Conservation of the presented signals.                                  *)
(***************************************************************************)
\* What a step of the manual interface adds to the number of presented
\* signals: 1 if it is a present_signal, else 0.
PresentedBy(call) == IF call.op = "present_signal" THEN 1 ELSE 0

\* C40: every call of present_signal adds one to len(pending_signals) +
\* len(executed_trades) and no call of mark_signal_executed changes it, so the
\* sum is the number of present_signal calls made, also when signal ids are
\* defaulted or repeated.
C40_PresentedSignalsConserved ==
    [][harness = "manual"
          => MI_total_signals_presented(manual')
                 = MI_total_signals_presented(manual) + PresentedBy(cycle_call')]_vars

\* mark_signal_executed moves one pending signal or none and loses nothing.
MarkConserves ==
    [][(harness = "manual" /\ cycle_call'.op = "mark_signal_executed")
          => /\ MI_total_signals_presented(manual') = MI_total_signals_presented(manual)
             /\ Len(manual'.executed_trades)
                    = Len(manual.executed_trades) + (IF cycle_call'.ret THEN 1 ELSE 0)]_vars

\* A defaulted id that a pending signal already has: the executed signal took
\* the pending one with it.
DefaultedIdLosesPending ==
    /\ harness = "manual"
    /\ cycle_call.op = "present_signal"
    /\ cycle_call.signal.signal_id = NoId
    /\ cycle_call.ret.user_executed
    /\ MI_total_signals_presented(manual) < MI_total_signals_presented(cycle_call.pre)  + 1

\* A repeated id: the executed signal took the pending one of its id with it.
RepeatedIdLosesPending ==
    /\ harness = "manual"
    /\ cycle_call.op = "present_signal"
    /\ cycle_call.signal.signal_id # NoId
    /\ cycle_call.ret.user_executed
    /\ MI_total_signals_presented(manual) < MI_total_signals_presented(cycle_call.pre)  + 1

=============================================================================
